---- MODULE Spec2Model ----
(***************************************************************************)
(* Model of the ELFS single-file block filesystem (MrEll3n/zos-semester).  *)
(*                                                                         *)
(* The image is modelled at byte level: a data block is a sequence of      *)
(* BLOCK_SIZE bytes, a directory is the packed array of 16-byte entries    *)
(* stored in its file content, a path is the sequence of the character     *)
(* codes of its string.  The block size is scaled down (EntriesPerBlock    *)
(* directory entries per block instead of 256) so that block boundaries,   *)
(* full directories and a full data area are within reach of TLC.          *)
(* Host I/O errors (a failing seek/read/write of the image) are not        *)
(* modelled: every block and inode access inside the image succeeds.       *)
(* Every size is below 2^31, where the program's casts to u32 and its      *)
(* saturating u64 arithmetic leave a value as it is.                       *)
(***************************************************************************)
EXTENDS Integers, Sequences, FiniteSets, TLC

VARIABLES
    running,       \* the process is alive (exit has not been executed)
    fs_open,       \* Context.fs is Some
    img_sb,        \* block 0 of the image: a superblock record, or NoSb (no magic)
    img_bitmap,    \* bitmap region of the image: set of the bit indices that are set
    inodes,        \* inode table of the image: inode id -> Inode record
    blocks,        \* data area of the image: absolute block index -> bytes
    sb,            \* FileSystem.sb (copy of the superblock read on open)
    data_bitmap,   \* FileSystem.data_bitmap: set of the bit indices that are set
    bitmap_dirty,  \* FileSystem.bitmap_dirty
    cwd_inode,     \* FileSystem.cwd_inode
    cwd_stack,     \* FileSystem.cwd_stack
    cwd_path,      \* FileSystem.cwd_path
    ncmds,         \* number of command lines still waiting on standard input
    last           \* the last command dispatched and the reply it printed

vars == <<running, fs_open, img_sb, img_bitmap, inodes, blocks, sb, data_bitmap,
          bitmap_dirty, cwd_inode, cwd_stack, cwd_path, ncmds, last>>

-----------------------------------------------------------------------------
(* Bounds of the model *)

\* directory entries per data block (256 in the program: 4096 / 16)
EntriesPerBlock == 2
\* average data blocks per inode used by format (4 in the program: 16 KiB / 4 KiB)
BlocksPerInode == 1
\* command lines dispatched in one run of the shell
MaxCmds == 6
\* command lines read in a session of SpecFile
MaxFileCmds == 5

(* Program constants *)

INODE_SIZE == 48
DIR_NAME_LEN == 12
DIR_ENTRY_SIZE == 16
\* u32::MAX; a u32 above 2^31 - 1 is held as its value minus 2^32
DIR_INODE_UNUSED == -1
NDIRECT == 5
MAX_SYMLINK_DEPTH == 16
BLOCK_SIZE == EntriesPerBlock * DIR_ENTRY_SIZE
DEFAULT_BPI == BlocksPerInode * BLOCK_SIZE
FS_MAGIC == <<69, 76, 70, 83>>

NoSb == [magic |-> <<0, 0, 0, 0>>]

-----------------------------------------------------------------------------
(* Strings: a string is the sequence of its character codes *)

SLASH == 47
DOT == 46

Min(a, b) == IF a < b THEN a ELSE b
Max(a, b) == IF a > b THEN a ELSE b

\* str.split('/').filter(|c| !c.is_empty()).collect()
RECURSIVE SplitFrom(_, _, _)
SplitFrom(s, i, cur) ==
    IF i > Len(s)
    THEN IF cur = <<>> THEN <<>> ELSE <<cur>>
    ELSE IF s[i] = SLASH
         THEN (IF cur = <<>> THEN <<>> ELSE <<cur>>) \o SplitFrom(s, i + 1, <<>>)
         ELSE SplitFrom(s, i + 1, Append(cur, s[i]))

SplitPath(s) == SplitFrom(s, 1, <<>>)

StartsWithSlash(s) == Len(s) > 0 /\ s[1] = SLASH
EndsWithSlash(s) == Len(s) > 0 /\ s[Len(s)] = SLASH

DotName == <<DOT>>
DotDotName == <<DOT, DOT>>

\* parts.join("/") prefixed with "/"
RECURSIVE JoinAbs(_)
JoinAbs(parts) ==
    IF parts = <<>> THEN <<>>
    ELSE <<SLASH>> \o Head(parts) \o JoinAbs(Tail(parts))

-----------------------------------------------------------------------------
(* Layout *)

\* a faulty rounding: down
FloorDiv(a, b) == a \div b

\* (a + b - 1) / b
CeilDiv(a, b) == (a + b - 1) \div b
SatSub(a, b) == IF a > b THEN a - b ELSE 0

\* the bitmap sizing loop of compute_layout: `left` iterations remain
RECURSIVE BitmapBlocksLoop(_, _, _, _, _)
BitmapBlocksLoop(left, bitmap_blocks, blocks_total, inode_table_blocks_final, block_size) ==
    IF left = 0 THEN bitmap_blocks
    ELSE LET data_blocks_tmp == SatSub(blocks_total, inode_table_blocks_final + bitmap_blocks)
             needed == CeilDiv(data_blocks_tmp, block_size * 8)
         IN IF needed = bitmap_blocks THEN bitmap_blocks
            ELSE BitmapBlocksLoop(left - 1, needed, blocks_total,
                                  inode_table_blocks_final, block_size)

compute_layout(fs_bytes, block_size, bytes_per_inode) ==
    LET bpi_bytes == Max(bytes_per_inode, 1)
        avg_data_blocks_per_inode == Max(bpi_bytes \div block_size, 1)
        blocks_total_sb == fs_bytes \div block_size
        blocks_total == SatSub(blocks_total_sb, 1)
        denom == avg_data_blocks_per_inode * block_size + INODE_SIZE
        inode_count_est == Max((blocks_total * block_size) \div denom, 1)
        inode_table_blocks_est == CeilDiv(inode_count_est * INODE_SIZE, block_size)
        inode_table_blocks_est_u32 == Min(inode_table_blocks_est, blocks_total)
        data_blocks_est == SatSub(blocks_total, inode_table_blocks_est_u32)
        inode_count_final ==
            Min(inode_count_est,
                IF avg_data_blocks_per_inode > 0
                THEN data_blocks_est \div avg_data_blocks_per_inode
                ELSE data_blocks_est)
        inode_table_blocks_final == CeilDiv(inode_count_final * INODE_SIZE, block_size)
        bitmap_blocks == BitmapBlocksLoop(3, 0, blocks_total, inode_table_blocks_final,
                                          block_size)
        data_blocks_final == SatSub(blocks_total, inode_table_blocks_final + bitmap_blocks)
    IN IF blocks_total = 0
       THEN [fs_size |-> fs_bytes, magic |-> FS_MAGIC, root_inode_id |-> 0,
             bitmap_start |-> 1, bitmap_count |-> 0, block_start |-> 1, block_count |-> 0,
             inode_start |-> 1, inode_count |-> 0]
       ELSE [fs_size |-> fs_bytes, magic |-> FS_MAGIC, root_inode_id |-> 0,
             bitmap_start |-> 1, bitmap_count |-> bitmap_blocks,
             block_start |-> 1 + bitmap_blocks + inode_table_blocks_final,
             block_count |-> data_blocks_final,
             inode_start |-> 1 + bitmap_blocks, inode_count |-> inode_count_final]

\* the Inode record of layout.rs (the reserved bytes are always zero and left out)
ZeroInode ==
    [file_size |-> 0, id |-> 0, single_directs |-> <<0, 0, 0, 0, 0>>,
     single_indirect |-> 0, double_indirect |-> 0, file_type |-> 0, link_count |-> 0]

NewInode(id, type) == [ZeroInode EXCEPT !.id = id, !.file_type = type, !.link_count = 1]

ZeroBlock == [i \in 1..BLOCK_SIZE |-> 0]

-----------------------------------------------------------------------------
(* Bitmap: a bitmap of n bytes is modelled by the set of its set bit indices *)

BitmapBytes(s) == s.bitmap_count * BLOCK_SIZE

bitmap_is_set(bitmap, idx) == idx \in bitmap
\* a faulty bitmap_set: the bit is left clear
bitmap_set_none(bitmap, idx) == bitmap
bitmap_set(bitmap, idx) == bitmap \cup {idx}
bitmap_clear(bitmap, idx) == bitmap \ {idx}

ByteIsFull(bitmap, i) == \A bit \in 0..7 : (i * 8 + bit) \in bitmap

\* the inner loop of find_free_data_block over the bits of byte i
RECURSIVE ScanBits(_, _, _, _)
ScanBits(bitmap, i, bit, limit) ==
    IF bit > 7 THEN [some |-> FALSE, cont |-> TRUE, id |-> 0]
    ELSE LET id == i * 8 + bit
         IN IF id >= limit THEN [some |-> FALSE, cont |-> FALSE, id |-> 0]
            ELSE IF id \notin bitmap THEN [some |-> TRUE, cont |-> FALSE, id |-> id]
            ELSE ScanBits(bitmap, i, bit + 1, limit)

\* the outer loop of find_free_data_block over the bytes i..nbytes-1
RECURSIVE ScanBytes(_, _, _, _)
ScanBytes(bitmap, i, nbytes, limit) ==
    IF i >= nbytes THEN [some |-> FALSE, id |-> 0]
    ELSE IF ByteIsFull(bitmap, i) THEN ScanBytes(bitmap, i + 1, nbytes, limit)
    ELSE LET Scanned(r) ==
                 IF r.cont THEN ScanBytes(bitmap, i + 1, nbytes, limit)
                 ELSE [some |-> r.some, id |-> r.id]
         IN Scanned(ScanBits(bitmap, i, 0, limit))

\* a faulty find_free_data_block: the scan runs to the end of the last byte
find_free_unbounded(bitmap, nbytes, limit) == ScanBytes(bitmap, 0, nbytes, nbytes * 8)

find_free_data_block(bitmap, nbytes, limit) == ScanBytes(bitmap, 0, nbytes, limit)

alloc_data_block(bitmap, s) ==
    LET Found(r) ==
            IF r.some
            THEN [some |-> TRUE, bitmap |-> bitmap_set(bitmap, r.id),
                  b |-> s.block_start + r.id]
            ELSE [some |-> FALSE, bitmap |-> bitmap, b |-> 0]
    IN Found(find_free_data_block(bitmap, BitmapBytes(s), s.block_count))

free_data_block(bitmap, s, abs_block) ==
    IF abs_block < s.block_start THEN [ok |-> FALSE, bitmap |-> bitmap]
    ELSE IF abs_block - s.block_start >= s.block_count THEN [ok |-> FALSE, bitmap |-> bitmap]
    ELSE [ok |-> TRUE, bitmap |-> bitmap_clear(bitmap, abs_block - s.block_start)]

-----------------------------------------------------------------------------
(* Filesystem facade.  F is the FileSystem object together with the image   *)
(* behind its file handle:                                                  *)
(*   [sb, data_bitmap, bitmap_dirty, cwd_inode, cwd_stack, cwd_path,        *)
(*    img_bitmap, inodes, blocks]                                           *)
(* Every operation returns what the Rust function returns together with     *)
(* the facade as the call leaves it.                                        *)

flush(F) ==
    IF F.bitmap_dirty
    THEN [F EXCEPT !.img_bitmap = F.data_bitmap, !.bitmap_dirty = FALSE]
    ELSE F

\* io::read_inode / io::write_inode fail when inode_id >= sb.inode_count
InodeInRange(F, id) == id >= 0 /\ id < F.sb.inode_count

read_inode(F, id) == F.inodes[id]

write_inode(F, id, inode) ==
    IF InodeInRange(F, id)
    THEN [ok |-> TRUE, fs |-> [F EXCEPT !.inodes[id] = inode]]
    ELSE [ok |-> FALSE, fs |-> F]

\* a faulty alloc_block: the bitmap is not marked dirty
alloc_block_quiet(F) ==
    LET Allocated(r) ==
            IF r.some
            THEN [some |-> TRUE, b |-> r.b, fs |-> [F EXCEPT !.data_bitmap = r.bitmap]]
            ELSE [some |-> FALSE, b |-> 0, fs |-> F]
    IN Allocated(alloc_data_block(F.data_bitmap, F.sb))

alloc_block(F) ==
    LET Allocated(r) ==
            IF r.some
            THEN [some |-> TRUE, b |-> r.b,
                  fs |-> [F EXCEPT !.data_bitmap = r.bitmap, !.bitmap_dirty = TRUE]]
            ELSE [some |-> FALSE, b |-> 0, fs |-> F]
    IN Allocated(alloc_data_block(F.data_bitmap, F.sb))

free_block(F, abs_block) ==
    LET Freed(r) ==
            IF r.ok
            THEN [ok |-> TRUE,
                  fs |-> [F EXCEPT !.data_bitmap = r.bitmap, !.bitmap_dirty = TRUE]]
            ELSE [ok |-> FALSE, fs |-> F]
    IN Freed(free_data_block(F.data_bitmap, F.sb, abs_block))

\* scan ids 1..inode_count-1 for link_count == 0
RECURSIVE AllocInodeScan(_, _)
AllocInodeScan(F, id) ==
    IF id >= F.sb.inode_count THEN [some |-> FALSE, id |-> 0]
    ELSE IF F.inodes[id].link_count = 0 THEN [some |-> TRUE, id |-> id]
    ELSE AllocInodeScan(F, id + 1)

\* a faulty alloc_inode: inode 1 whatever its link_count
alloc_inode_first(F) ==
    IF F.sb.inode_count > 1 THEN [some |-> TRUE, id |-> 1] ELSE [some |-> FALSE, id |-> 0]

alloc_inode(F) == AllocInodeScan(F, 1)

\* the loop of free_inode over the direct pointers i..5; `?` leaves on the first error
RECURSIVE FreeDirects(_, _, _)
FreeDirects(F, ino, i) ==
    IF i > NDIRECT THEN [ok |-> TRUE, fs |-> F, ino |-> ino]
    ELSE IF ino.single_directs[i] # 0
         THEN LET Freed(r) ==
                      IF r.ok
                      THEN FreeDirects(r.fs, [ino EXCEPT !.single_directs[i] = 0], i + 1)
                      ELSE [ok |-> FALSE, fs |-> F, ino |-> ino]
              IN Freed(free_block(F, ino.single_directs[i]))
         ELSE FreeDirects(F, ino, i + 1)

\* a faulty free_inode: the inode is cleared but its blocks stay allocated
free_inode_leaky(F, inode_id) ==
    IF ~InodeInRange(F, inode_id) THEN [ok |-> FALSE, fs |-> F]
    ELSE [ok |-> TRUE,
          fs |-> write_inode(F, inode_id,
                             [read_inode(F, inode_id) EXCEPT
                                 !.single_directs = [k \in 1..NDIRECT |-> 0],
                                 !.file_size = 0, !.file_type = 0, !.link_count = 0]).fs]

free_inode(F, inode_id) ==
    IF ~InodeInRange(F, inode_id) THEN [ok |-> FALSE, fs |-> F]
    ELSE LET Released(r) ==
                 IF ~r.ok THEN [ok |-> FALSE, fs |-> r.fs]
                 ELSE write_inode(r.fs, inode_id,
                                  [r.ino EXCEPT !.file_size = 0, !.file_type = 0,
                                                !.link_count = 0])
         IN Released(FreeDirects(F, read_inode(F, inode_id), 1))

\* a faulty get_block: every logical block is looked up in the first pointer
get_block_first(inode, logical) ==
    IF logical < NDIRECT /\ inode.single_directs[1] # 0
    THEN [some |-> TRUE, b |-> inode.single_directs[1]]
    ELSE [some |-> FALSE, b |-> 0]

\* block mapping: direct pointers only
get_block(inode, logical) ==
    IF logical < NDIRECT
    THEN LET b == inode.single_directs[logical + 1]
         IN IF b = 0 THEN [some |-> FALSE, b |-> 0] ELSE [some |-> TRUE, b |-> b]
    ELSE [some |-> FALSE, b |-> 0]

get_or_alloc_block(F, inode, logical) ==
    IF logical >= NDIRECT THEN [some |-> FALSE, b |-> 0, fs |-> F, inode |-> inode]
    ELSE IF inode.single_directs[logical + 1] = 0
    THEN LET Allocated(a) ==
                 IF a.some
                 THEN [some |-> TRUE, b |-> a.b,
                       fs |-> write_inode(a.fs, inode.id,
                                          [inode EXCEPT !.single_directs[logical + 1] = a.b]).fs,
                       inode |-> [inode EXCEPT !.single_directs[logical + 1] = a.b]]
                 ELSE [some |-> FALSE, b |-> 0, fs |-> F, inode |-> inode]
         IN Allocated(alloc_block(F))
    ELSE [some |-> TRUE, b |-> inode.single_directs[logical + 1], fs |-> F, inode |-> inode]

\* the loop of read_file_range
RECURSIVE ReadLoop(_, _, _, _)
ReadLoop(F, inode, cursor, remaining) ==
    IF remaining = 0 THEN [ok |-> TRUE, err |-> "", data |-> <<>>]
    ELSE LET logical == cursor \div BLOCK_SIZE
             within == cursor % BLOCK_SIZE
             to_take == Min(remaining, BLOCK_SIZE - within)
             Rest(g, rest) ==
                 IF ~rest.ok THEN rest
                 ELSE [ok |-> TRUE, err |-> "",
                       data |-> SubSeq(F.blocks[g.b], within + 1, within + to_take)
                                \o rest.data]
             Mapped(g) ==
                 IF ~g.some THEN [ok |-> FALSE, err |-> "MissingBlock", data |-> <<>>]
                 ELSE IF g.b \notin DOMAIN F.blocks
                 THEN [ok |-> FALSE, err |-> "IoError", data |-> <<>>]
                 ELSE Rest(g, ReadLoop(F, inode, cursor + to_take, remaining - to_take))
         IN Mapped(get_block(inode, logical))

read_file_range(F, inode, offset, len) ==
    IF offset + len > inode.file_size
    THEN [ok |-> FALSE, err |-> "OutOfRange", data |-> <<>>]
    ELSE ReadLoop(F, inode, offset, len)

\* the loop of write_file_range
RECURSIVE WriteLoop(_, _, _, _, _)
WriteLoop(F, inode, cursor, src_pos, data) ==
    IF src_pos >= Len(data) THEN [ok |-> TRUE, err |-> "", fs |-> F, inode |-> inode]
    ELSE LET logical == cursor \div BLOCK_SIZE
             within == cursor % BLOCK_SIZE
             to_write == Min(Len(data) - src_pos, BLOCK_SIZE - within)
             \* a block that exists is read, modified and written back; a fresh one
             \* is written from a zeroed buffer
             Filled(old) ==
                 [k \in 1..BLOCK_SIZE |->
                     IF k > within /\ k <= within + to_write
                     THEN data[src_pos + (k - within)]
                     ELSE old[k]]
             Store(existed, a) ==
                 IF ~a.some
                 THEN [ok |-> FALSE, err |-> "NoSpace", fs |-> a.fs, inode |-> a.inode]
                 ELSE IF a.b \notin DOMAIN a.fs.blocks
                 THEN [ok |-> FALSE, err |-> "IoError", fs |-> a.fs, inode |-> a.inode]
                 ELSE WriteLoop([a.fs EXCEPT !.blocks[a.b] =
                                    Filled(IF existed THEN a.fs.blocks[a.b] ELSE ZeroBlock)],
                                a.inode, cursor + to_write, src_pos + to_write, data)
             Mapped(g) ==
                 IF g.some
                 THEN Store(TRUE, [some |-> TRUE, b |-> g.b, fs |-> F, inode |-> inode])
                 ELSE Store(FALSE, get_or_alloc_block(F, inode, logical))
         IN IF logical >= NDIRECT
            THEN [ok |-> FALSE, err |-> "FileTooLarge", fs |-> F, inode |-> inode]
            ELSE Mapped(get_block(inode, logical))

\* a faulty write_file_range: file_size becomes the end of the write even
\* when the file was longer
write_file_range_end(F, inode, offset, data) ==
    LET new_end == offset + Len(data)
        Written(r) ==
            IF ~r.ok THEN r
            ELSE [ok |-> TRUE, err |-> "",
                  fs |-> write_inode(r.fs, r.inode.id,
                                     [r.inode EXCEPT !.file_size = new_end]).fs,
                  inode |-> [r.inode EXCEPT !.file_size = new_end]]
    IN Written(WriteLoop(F, inode, offset, 0, data))

write_file_range(F, inode, offset, data) ==
    LET new_end == offset + Len(data)
        Written(r) ==
            IF ~r.ok THEN r
            ELSE IF new_end > r.inode.file_size
            THEN [ok |-> TRUE, err |-> "",
                  fs |-> write_inode(r.fs, r.inode.id,
                                     [r.inode EXCEPT !.file_size = new_end]).fs,
                  inode |-> [r.inode EXCEPT !.file_size = new_end]]
            ELSE r
    IN Written(WriteLoop(F, inode, offset, 0, data))

\* a faulty order: the inode with the new pointer is not persisted here
AllocEventsLate(a) == <<[op |-> "alloc_block", b |-> a.b]>>

\* get_or_alloc_block as the primitive writes it issues, in program order:
\* alloc_block (bitmap bit), then write_inode with the new pointer
AllocEvents(a) ==
    <<[op |-> "alloc_block", b |-> a.b],
      [op |-> "write_inode", id |-> a.inode.id, inode |-> a.inode]>>

\* the loop of write_file_range as the primitive writes it issues, in program
\* order: per block the writes of get_or_alloc_block, then write_block
RECURSIVE WriteLoopEvents(_, _, _, _, _)
WriteLoopEvents(F, inode, cursor, src_pos, data) ==
    IF src_pos >= Len(data) THEN [ok |-> TRUE, ev |-> <<>>, inode |-> inode]
    ELSE LET logical == cursor \div BLOCK_SIZE
             within == cursor % BLOCK_SIZE
             to_write == Min(Len(data) - src_pos, BLOCK_SIZE - within)
             Filled(old) ==
                 [k \in 1..BLOCK_SIZE |->
                     IF k > within /\ k <= within + to_write
                     THEN data[src_pos + (k - within)]
                     ELSE old[k]]
             Rest(pre, buf, a, rest) ==
                 [ok |-> rest.ok,
                  ev |-> pre \o <<[op |-> "write_block", b |-> a.b, buf |-> buf]>> \o rest.ev,
                  inode |-> rest.inode]
             Store(existed, pre, a) ==
                 IF ~a.some THEN [ok |-> FALSE, ev |-> <<>>, inode |-> a.inode]
                 ELSE IF a.b \notin DOMAIN a.fs.blocks
                 THEN [ok |-> FALSE, ev |-> pre, inode |-> a.inode]
                 ELSE LET buf == Filled(IF existed THEN a.fs.blocks[a.b] ELSE ZeroBlock)
                      IN Rest(pre, buf, a,
                              WriteLoopEvents([a.fs EXCEPT !.blocks[a.b] = buf], a.inode,
                                              cursor + to_write, src_pos + to_write, data))
             Fresh(a) == Store(FALSE, IF a.some THEN AllocEvents(a) ELSE <<>>, a)
             Mapped(g) ==
                 IF g.some
                 THEN Store(TRUE, <<>>, [some |-> TRUE, b |-> g.b, fs |-> F, inode |-> inode])
                 ELSE Fresh(get_or_alloc_block(F, inode, logical))
         IN IF logical >= NDIRECT THEN [ok |-> FALSE, ev |-> <<>>, inode |-> inode]
            ELSE Mapped(get_block(inode, logical))

\* write_file_range as its primitive writes: the loop, then write_inode with
\* the new file_size when the file has grown
WriteEvents(F, inode, offset, data) ==
    LET new_end == offset + Len(data)
        Written(r) ==
            IF r.ok /\ new_end > r.inode.file_size
            THEN [ok |-> TRUE,
                  ev |-> Append(r.ev,
                                [op |-> "write_inode", id |-> r.inode.id,
                                 inode |-> [r.inode EXCEPT !.file_size = new_end]])]
            ELSE [ok |-> r.ok, ev |-> r.ev]
    IN Written(WriteLoopEvents(F, inode, offset, 0, data))

\* the facade after the primitive writes ev, applied in order
RECURSIVE Replay(_, _)
Replay(F, ev) ==
    IF ev = <<>> THEN F
    ELSE LET e == Head(ev)
         IN Replay(IF e.op = "alloc_block"
                   THEN [F EXCEPT !.data_bitmap =
                                      bitmap_set(F.data_bitmap, e.b - F.sb.block_start),
                                  !.bitmap_dirty = TRUE]
                   ELSE IF e.op = "write_inode" THEN write_inode(F, e.id, e.inode).fs
                   ELSE [F EXCEPT !.blocks[e.b] = e.buf],
                   Tail(ev))

-----------------------------------------------------------------------------
(* Directory entries: 12 name bytes followed by the inode id, little-endian *)

LE4(n) == <<n % 256, (n \div 256) % 256, (n \div 65536) % 256, (n \div 16777216) % 256>>
FromLE4(b) ==
    b[1] + 256 * b[2] + 65536 * b[3]
    + 16777216 * (IF b[4] >= 128 THEN b[4] - 256 ELSE b[4])

\* DirectoryEntry::from_name: the name, NUL-padded to 12 bytes
from_name(name, inode_id) ==
    [name |-> [i \in 1..DIR_NAME_LEN |-> IF i <= Len(name) THEN name[i] ELSE 0],
     inode_id |-> inode_id]

\* a faulty serialize: the last name byte is dropped, 15 bytes in all
serialize_short(entry) ==
    SubSeq(entry.name, 1, DIR_NAME_LEN - 1) \o LE4(entry.inode_id)

serialize(entry) == entry.name \o LE4(entry.inode_id)

deserialize(inp) ==
    [name |-> SubSeq(inp, 1, DIR_NAME_LEN),
     inode_id |-> FromLE4(SubSeq(inp, DIR_NAME_LEN + 1, DIR_NAME_LEN + 4))]

is_unused(entry) == entry.inode_id = DIR_INODE_UNUSED
\* a faulty mark_unused: the inode id is cleared to 0
mark_unused_zero(entry) == [entry EXCEPT !.inode_id = 0]
\* a faulty mark_unused: the entry is left as it is
mark_unused_keep(entry) == entry
mark_unused(entry) == [entry EXCEPT !.inode_id = DIR_INODE_UNUSED]

\* the name up to its first NUL byte (all 12 bytes when there is none)
name_str(entry) ==
    LET nul == {i \in 1..DIR_NAME_LEN : entry.name[i] = 0}
        end == IF nul = {} THEN DIR_NAME_LEN
               ELSE (CHOOSE i \in nul : \A j \in nul : i <= j) - 1
    IN SubSeq(entry.name, 1, end)

dir_entry_count(dir_inode) == dir_inode.file_size \div DIR_ENTRY_SIZE

\* the loop of dir_find over the slots i..slots-1
RECURSIVE DirFindLoop(_, _, _, _)
DirFindLoop(F, dir_inode, name, i) ==
    IF i >= dir_entry_count(dir_inode)
    THEN [ok |-> TRUE, err |-> "", found |-> FALSE, slot |-> 0, entry |-> from_name(<<>>, 0)]
    ELSE LET Slot(entry) ==
                 IF ~is_unused(entry) /\ name_str(entry) = name
                 THEN [ok |-> TRUE, err |-> "", found |-> TRUE, slot |-> i, entry |-> entry]
                 ELSE DirFindLoop(F, dir_inode, name, i + 1)
             Loaded(r) ==
                 IF ~r.ok
                 THEN [ok |-> FALSE, err |-> r.err, found |-> FALSE, slot |-> 0,
                       entry |-> from_name(<<>>, 0)]
                 ELSE Slot(deserialize(r.data))
         IN Loaded(read_file_range(F, dir_inode, i * DIR_ENTRY_SIZE, DIR_ENTRY_SIZE))

dir_find(F, dir_inode, name) ==
    IF dir_inode.file_type # 1
    THEN [ok |-> FALSE, err |-> "NotADirectory", found |-> FALSE, slot |-> 0,
          entry |-> from_name(<<>>, 0)]
    ELSE DirFindLoop(F, dir_inode, name, 0)

RECURSIVE DirIsEmptyLoop(_, _, _)
DirIsEmptyLoop(F, dir_inode, i) ==
    IF i >= dir_entry_count(dir_inode) THEN [ok |-> TRUE, empty |-> TRUE]
    ELSE LET Loaded(r) ==
                 IF ~r.ok THEN [ok |-> FALSE, empty |-> FALSE]
                 ELSE IF ~is_unused(deserialize(r.data)) THEN [ok |-> TRUE, empty |-> FALSE]
                 ELSE DirIsEmptyLoop(F, dir_inode, i + 1)
         IN Loaded(read_file_range(F, dir_inode, i * DIR_ENTRY_SIZE, DIR_ENTRY_SIZE))

dir_is_empty(F, dir_inode) == DirIsEmptyLoop(F, dir_inode, 0)

\* a faulty "try free slot" loop: no slot is ever found free
FreeSlotNone(F, dir_inode, i) == [ok |-> TRUE, err |-> "", found |-> FALSE, slot |-> 0]

\* the "try free slot" loop of dir_add_entry: the first unused slot at or after i
RECURSIVE FreeSlotLoop(_, _, _)
FreeSlotLoop(F, dir_inode, i) ==
    IF i >= dir_entry_count(dir_inode)
    THEN [ok |-> TRUE, err |-> "", found |-> FALSE, slot |-> 0]
    ELSE LET Loaded(r) ==
                 IF ~r.ok THEN [ok |-> FALSE, err |-> r.err, found |-> FALSE, slot |-> 0]
                 ELSE IF is_unused(deserialize(r.data))
                 THEN [ok |-> TRUE, err |-> "", found |-> TRUE, slot |-> i]
                 ELSE FreeSlotLoop(F, dir_inode, i + 1)
         IN Loaded(read_file_range(F, dir_inode, i * DIR_ENTRY_SIZE, DIR_ENTRY_SIZE))

\* write one slot and persist the directory inode (the tail of both branches)
WriteSlot(F, dir_inode, offset, slot_buf) ==
    LET Persisted(w, p) ==
            [ok |-> p.ok, err |-> IF p.ok THEN "" ELSE "OutOfRange", fs |-> p.fs,
             inode |-> w.inode]
        Written(w) ==
            IF ~w.ok THEN [ok |-> FALSE, err |-> w.err, fs |-> w.fs, inode |-> w.inode]
            ELSE Persisted(w, write_inode(w.fs, w.inode.id, w.inode))
    IN Written(write_file_range(F, dir_inode, offset, slot_buf))

dir_add_entry(F, dir_inode, name, inode_id) ==
    IF name = <<>> \/ Len(name) > DIR_NAME_LEN
    THEN [ok |-> FALSE, err |-> "InvalidName", fs |-> F, inode |-> dir_inode]
    ELSE LET slot_buf == serialize(from_name(name, inode_id))
             Slot(s) ==
                 IF ~s.ok THEN [ok |-> FALSE, err |-> s.err, fs |-> F, inode |-> dir_inode]
                 ELSE IF s.found
                 THEN WriteSlot(F, dir_inode, s.slot * DIR_ENTRY_SIZE, slot_buf)
                 ELSE WriteSlot(F, dir_inode, dir_inode.file_size, slot_buf)
             Looked(f) ==
                 IF ~f.ok THEN [ok |-> FALSE, err |-> f.err, fs |-> F, inode |-> dir_inode]
                 ELSE IF f.found
                 THEN [ok |-> FALSE, err |-> "AlreadyExists", fs |-> F, inode |-> dir_inode]
                 ELSE Slot(FreeSlotLoop(F, dir_inode, 0))
         IN Looked(dir_find(F, dir_inode, name))

\* the loop of dir_remove_entry over the slots i..slots-1
RECURSIVE DirRemoveLoop(_, _, _, _)
DirRemoveLoop(F, dir_inode, name, i) ==
    IF i >= dir_entry_count(dir_inode)
    THEN [ok |-> FALSE, err |-> "NotFound", fs |-> F, inode |-> dir_inode]
    ELSE LET Slot(entry) ==
                 IF ~is_unused(entry) /\ name_str(entry) = name
                 THEN WriteSlot(F, dir_inode, i * DIR_ENTRY_SIZE,
                                serialize(mark_unused(entry)))
                 ELSE DirRemoveLoop(F, dir_inode, name, i + 1)
             Loaded(r) ==
                 IF ~r.ok THEN [ok |-> FALSE, err |-> r.err, fs |-> F, inode |-> dir_inode]
                 ELSE Slot(deserialize(r.data))
         IN Loaded(read_file_range(F, dir_inode, i * DIR_ENTRY_SIZE, DIR_ENTRY_SIZE))

dir_remove_entry(F, dir_inode, name) == DirRemoveLoop(F, dir_inode, name, 0)

-----------------------------------------------------------------------------
(* Path resolver *)

\* a faulty readlink_target: the last byte of the stored target is not returned
readlink_target_short(F, inode_id) ==
    IF ~InodeInRange(F, inode_id) THEN [ok |-> FALSE, target |-> <<>>]
    ELSE IF read_inode(F, inode_id).file_type # 2 THEN [ok |-> FALSE, target |-> <<>>]
    ELSE LET Loaded(r) ==
                 IF ~r.ok THEN [ok |-> FALSE, target |-> <<>>]
                 ELSE [ok |-> TRUE, target |-> r.data]
         IN Loaded(read_file_range(F, read_inode(F, inode_id), 0,
                                   read_inode(F, inode_id).file_size - 1))

readlink_target(F, inode_id) ==
    IF ~InodeInRange(F, inode_id) THEN [ok |-> FALSE, target |-> <<>>]
    ELSE IF read_inode(F, inode_id).file_type # 2 THEN [ok |-> FALSE, target |-> <<>>]
    ELSE LET Loaded(r) ==
                 IF ~r.ok THEN [ok |-> FALSE, target |-> <<>>]
                 ELSE [ok |-> TRUE, target |-> r.data]
         IN Loaded(read_file_range(F, read_inode(F, inode_id), 0,
                                   read_inode(F, inode_id).file_size))

ResolveErr(e) == [ok |-> FALSE, err |-> e, id |-> 0, parents |-> <<>>]

\* resolve_components_with_stack is a while loop over comps that restarts itself
\* on a symlink.  Its position is the record
\*   [done, res, current_id, parents, comps, idx, depth]   (idx from 1)
ResolveDone(r) ==
    [done |-> TRUE, res |-> r, current_id |-> 0, parents |-> <<>>, comps |-> <<>>,
     idx |-> 0, depth |-> 0]

ResolveAt(current_id, parents, comps, idx, depth) ==
    [done |-> FALSE, res |-> ResolveErr(""), current_id |-> current_id,
     parents |-> parents, comps |-> comps, idx |-> idx, depth |-> depth]

\* a faulty entry check: the expansion that reaches max_depth is refused too
DepthExceededEarly(depth, max_depth) == depth >= max_depth

\* the entry check of resolve_components_with_stack
DepthExceeded(depth, max_depth) == depth > max_depth

\* a faulty "..": the walk stays where it is
StepDotDotStay(F, s) == ResolveAt(s.current_id, s.parents, s.comps, s.idx + 1, s.depth)

\* the ".." arm of the loop: back to the directory the current one was
\* entered from, or to the root when there is none
StepDotDot(F, s) ==
    IF s.parents # <<>>
    THEN ResolveAt(s.parents[Len(s.parents)],
                   SubSeq(s.parents, 1, Len(s.parents) - 1),
                   s.comps, s.idx + 1, s.depth)
    ELSE ResolveAt(F.sb.root_inode_id, s.parents, s.comps, s.idx + 1, s.depth)

\* one pass of the loop body (or the entry check and the return after the loop)
ResolveStep(F, s) ==
    LET Expand(target) ==
            ResolveAt(IF StartsWithSlash(target) THEN F.sb.root_inode_id ELSE s.current_id,
                      IF StartsWithSlash(target) THEN <<>> ELSE s.parents,
                      SplitPath(target) \o SubSeq(s.comps, s.idx + 1, Len(s.comps)),
                      1, s.depth + 1)
        Link(t) == IF ~t.ok THEN ResolveDone(ResolveErr("IoError")) ELSE Expand(t.target)
        Step(next_id) ==
            IF ~InodeInRange(F, next_id) THEN ResolveDone(ResolveErr("OutOfRange"))
            ELSE IF read_inode(F, next_id).file_type = 2
            THEN Link(readlink_target(F, next_id))
            ELSE ResolveAt(next_id, Append(s.parents, s.current_id), s.comps, s.idx + 1,
                           s.depth)
        Looked(f) ==
            IF ~f.ok THEN ResolveDone(ResolveErr("IoError"))
            ELSE IF ~f.found THEN ResolveDone(ResolveErr("ComponentNotFound"))
            ELSE Step(f.entry.inode_id)
    IN IF DepthExceeded(s.depth, MAX_SYMLINK_DEPTH)
       THEN ResolveDone(ResolveErr("SymlinkLoop"))
       ELSE IF s.idx > Len(s.comps)
       THEN ResolveDone([ok |-> TRUE, err |-> "", id |-> s.current_id,
                         parents |-> s.parents])
       ELSE IF s.comps[s.idx] = DotName
       THEN ResolveAt(s.current_id, s.parents, s.comps, s.idx + 1, s.depth)
       ELSE IF s.comps[s.idx] = DotDotName
       THEN StepDotDot(F, s)
       ELSE IF ~InodeInRange(F, s.current_id) THEN ResolveDone(ResolveErr("OutOfRange"))
       ELSE IF read_inode(F, s.current_id).file_type # 1
       THEN ResolveDone(ResolveErr("NotADirectory"))
       ELSE Looked(dir_find(F, read_inode(F, s.current_id), s.comps[s.idx]))

RECURSIVE ResolveLoop(_, _)
ResolveLoop(F, s) == IF s.done THEN s.res ELSE ResolveLoop(F, ResolveStep(F, s))

resolve_components_with_stack(F, current_id, parents, comps, depth) ==
    ResolveLoop(F, ResolveAt(current_id, parents, comps, 1, depth))

resolve_path_with_stack(F, path) ==
    IF path = <<>> THEN ResolveErr("EmptyPath")
    ELSE IF StartsWithSlash(path)
    THEN resolve_components_with_stack(F, F.sb.root_inode_id, <<>>, SplitPath(path), 0)
    ELSE resolve_components_with_stack(F, F.cwd_inode, F.cwd_stack, SplitPath(path), 0)

resolve_path(F, path) == resolve_path_with_stack(F, path)

resolve_parent_and_name(F, path) ==
    LET comps == SplitPath(path)
        Parent(r) ==
            IF ~r.ok THEN [ok |-> FALSE, id |-> 0, name |-> <<>>]
            ELSE [ok |-> TRUE, id |-> r.id, name |-> comps[Len(comps)]]
    IN IF path = <<>> THEN [ok |-> FALSE, id |-> 0, name |-> <<>>]
       ELSE IF comps = <<>> THEN [ok |-> FALSE, id |-> 0, name |-> <<>>]
       ELSE IF StartsWithSlash(path)
       THEN Parent(resolve_components_with_stack(F, F.sb.root_inode_id, <<>>,
                                                 SubSeq(comps, 1, Len(comps) - 1), 0))
       ELSE Parent(resolve_components_with_stack(F, F.cwd_inode, F.cwd_stack,
                                                 SubSeq(comps, 1, Len(comps) - 1), 0))

\* the normalisation loop of cd over the components of new_path
RECURSIVE NormParts(_, _)
NormParts(comps, parts) ==
    IF comps = <<>> THEN parts
    ELSE IF Head(comps) = DotName THEN NormParts(Tail(comps), parts)
    ELSE IF Head(comps) = DotDotName
    THEN NormParts(Tail(comps),
                   IF parts # <<>> THEN SubSeq(parts, 1, Len(parts) - 1) ELSE parts)
    ELSE NormParts(Tail(comps), Append(parts, Head(comps)))

\* a faulty check: whatever the path resolves to is accepted
NotDirectoryNever(inode) == FALSE

\* cd: inode.file_type != 1
NotDirectory(inode) == inode.file_type # 1

cd(F, path) ==
    LET new_path == IF StartsWithSlash(path) THEN path
                    ELSE IF EndsWithSlash(F.cwd_path) THEN F.cwd_path \o path
                    ELSE F.cwd_path \o <<SLASH>> \o path
        Shown(id, parts) ==
            IF id = F.sb.root_inode_id THEN <<SLASH>>
            ELSE IF parts = <<>> THEN <<SLASH>>
            ELSE JoinAbs(parts)
        Resolved(r) ==
            IF ~r.ok THEN [ok |-> FALSE, fs |-> F]
            ELSE IF ~InodeInRange(F, r.id) THEN [ok |-> FALSE, fs |-> F]
            ELSE IF NotDirectory(read_inode(F, r.id)) THEN [ok |-> FALSE, fs |-> F]
            ELSE [ok |-> TRUE,
                  fs |-> [F EXCEPT !.cwd_path = Shown(r.id, NormParts(SplitPath(new_path), <<>>)),
                                   !.cwd_inode = r.id, !.cwd_stack = r.parents]]
    IN Resolved(resolve_path_with_stack(F, path))

pwd(F) == F.cwd_path

-----------------------------------------------------------------------------
(* Command handlers.  Each takes the open filesystem F and the arguments   *)
(* and returns the reply it prints and the filesystem as it leaves it.     *)
(* A write_inode of an id that alloc_inode or the resolver has just        *)
(* produced cannot fail in the model (no host I/O errors), so the handlers' *)
(* branches for that failure are not taken.                                 *)

Reply(o, F) == [out |-> o, fs |-> F]

\* a faulty length check: a name of exactly 12 bytes is refused too
NameTooLongEarly(name) == Len(name) >= DIR_NAME_LEN

\* mkdir: name.len() > DIR_NAME_LEN
NameTooLong(name) == Len(name) > DIR_NAME_LEN

mkdir_cmd(F, target_path) ==
    LET Added(new_id, d) ==
            IF ~d.ok THEN Reply("PATH NOT FOUND", free_inode(d.fs, new_id).fs)
            ELSE Reply("OK", d.fs)
        Allocated(pn, a) ==
            IF ~a.some THEN Reply("PATH NOT FOUND", F)
            ELSE Added(a.id, dir_add_entry(write_inode(F, a.id, NewInode(a.id, 1)).fs,
                                           read_inode(F, pn.id), pn.name, a.id))
        Looked(pn, f) ==
            IF ~f.ok THEN Reply("PATH NOT FOUND", F)
            ELSE IF f.found THEN Reply("EXIST", F)
            ELSE Allocated(pn, alloc_inode(F))
        Parent(pn) ==
            IF ~pn.ok THEN Reply("PATH NOT FOUND", F)
            ELSE IF pn.name = <<>> \/ pn.name = DotName \/ pn.name = DotDotName
            THEN Reply("PATH NOT FOUND", F)
            ELSE IF NameTooLong(pn.name) THEN Reply("NAME TOO LONG", F)
            ELSE IF ~InodeInRange(F, pn.id) THEN Reply("PATH NOT FOUND", F)
            ELSE IF read_inode(F, pn.id).file_type # 1 THEN Reply("PATH NOT FOUND", F)
            ELSE Looked(pn, dir_find(F, read_inode(F, pn.id), pn.name))
    IN Parent(resolve_parent_and_name(F, target_path))

rmdir_cmd(F, path) ==
    LET Freed(fr) ==
            IF ~fr.ok THEN Reply("FILE NOT FOUND", fr.fs) ELSE Reply("OK", fr.fs)
        Removed(id, d) ==
            IF ~d.ok THEN Reply("FILE NOT FOUND", d.fs)
            ELSE Freed(free_inode(d.fs, id))
        Parent(id, pn) ==
            IF ~pn.ok THEN Reply("FILE NOT FOUND", F)
            ELSE IF ~InodeInRange(F, pn.id) THEN Reply("FILE NOT FOUND", F)
            ELSE Removed(id, dir_remove_entry(F, read_inode(F, pn.id), pn.name))
        Emptiness(id, e) ==
            IF ~e.ok THEN Reply("FILE NOT FOUND", F)
            ELSE IF ~e.empty THEN Reply("NOT EMPTY", F)
            ELSE Parent(id, resolve_parent_and_name(F, path))
        Resolved(r) ==
            IF ~r.ok THEN Reply("FILE NOT FOUND", F)
            ELSE IF ~InodeInRange(F, r.id) THEN Reply("FILE NOT FOUND", F)
            ELSE IF read_inode(F, r.id).file_type # 1 THEN Reply("FILE NOT FOUND", F)
            ELSE Emptiness(r.id, dir_is_empty(F, read_inode(F, r.id)))
    IN Resolved(resolve_path(F, path))

rm_cmd(F, path) ==
    LET Freed(fr) ==
            IF ~fr.ok THEN Reply("FILE NOT FOUND", fr.fs) ELSE Reply("OK", fr.fs)
        Removed(id, d) ==
            IF ~d.ok THEN Reply("FILE NOT FOUND", d.fs)
            ELSE Freed(free_inode(d.fs, id))
        Parent(id, pn) ==
            IF ~pn.ok THEN Reply("FILE NOT FOUND", F)
            ELSE IF ~InodeInRange(F, pn.id) THEN Reply("FILE NOT FOUND", F)
            ELSE Removed(id, dir_remove_entry(F, read_inode(F, pn.id), pn.name))
        Resolved(r) ==
            IF ~r.ok THEN Reply("FILE NOT FOUND", F)
            ELSE IF ~InodeInRange(F, r.id) THEN Reply("FILE NOT FOUND", F)
            ELSE IF read_inode(F, r.id).file_type = 1 THEN Reply("FILE NOT FOUND", F)
            ELSE Parent(r.id, resolve_parent_and_name(F, path))
    IN Resolved(resolve_path(F, path))

\* a faulty type check: only a directory is refused
NotSymlinkLax(inode) == inode.file_type = 1

\* rmslink: target_inode.file_type != 2
NotSymlink(inode) == inode.file_type # 2

rmslink_cmd(F, path) ==
    LET Freed(fr) ==
            IF ~fr.ok THEN Reply("FILE NOT FOUND", fr.fs) ELSE Reply("OK", fr.fs)
        Removed(id, d) ==
            IF ~d.ok THEN Reply("FILE NOT FOUND", d.fs)
            ELSE Freed(free_inode(d.fs, id))
        Looked(pn, f) ==
            IF ~f.ok \/ ~f.found THEN Reply("FILE NOT FOUND", F)
            ELSE IF ~InodeInRange(F, f.entry.inode_id) THEN Reply("FILE NOT FOUND", F)
            ELSE IF NotSymlink(read_inode(F, f.entry.inode_id))
            THEN Reply("FILE NOT FOUND", F)
            ELSE Removed(f.entry.inode_id,
                         dir_remove_entry(F, read_inode(F, pn.id), pn.name))
        Parent(pn) ==
            IF ~pn.ok THEN Reply("FILE NOT FOUND", F)
            ELSE IF pn.name = <<>> THEN Reply("FILE NOT FOUND", F)
            ELSE IF ~InodeInRange(F, pn.id) THEN Reply("FILE NOT FOUND", F)
            ELSE IF read_inode(F, pn.id).file_type # 1 THEN Reply("FILE NOT FOUND", F)
            ELSE Looked(pn, dir_find(F, read_inode(F, pn.id), pn.name))
    IN Parent(resolve_parent_and_name(F, path))


\* cp: initialise the new inode and, unless the source is empty, write the data
CpWriteData(F, new_id, data) ==
    IF data # <<>>
    THEN write_file_range(write_inode(F, new_id, NewInode(new_id, 0)).fs,
                          NewInode(new_id, 0), 0, data)
    ELSE [ok |-> TRUE, err |-> "", fs |-> write_inode(F, new_id, NewInode(new_id, 0)).fs,
          inode |-> NewInode(new_id, 0)]

\* cp: the destination entry does not exist
CpCreate(F, data, dst_parent_inode, dst_name) ==
    LET Added(new_id, add) ==
            IF ~add.ok THEN Reply("PATH NOT FOUND", free_inode(add.fs, new_id).fs)
            ELSE Reply("OK", write_inode(add.fs, add.inode.id, add.inode).fs)
        Written(new_id, w) ==
            IF ~w.ok THEN Reply("FILE NOT FOUND", free_inode(w.fs, new_id).fs)
            ELSE Added(new_id, dir_add_entry(write_inode(w.fs, new_id, w.inode).fs,
                                             dst_parent_inode, dst_name, new_id))
        Allocated(a) ==
            IF ~a.some THEN Reply("FILE NOT FOUND", F)
            ELSE Written(a.id, CpWriteData(F, a.id, data))
    IN Allocated(alloc_inode(F))

\* a faulty CpOverwrite: the old file is removed first, then the copy is made
CpOverwriteEager(F, data, dst_parent_inode, dst_name, old_id) ==
    LET Removed(rem) ==
            IF ~rem.ok THEN Reply("PATH NOT FOUND", rem.fs)
            ELSE CpCreate(free_inode(rem.fs, old_id).fs, data, rem.inode, dst_name)
    IN Removed(dir_remove_entry(F, dst_parent_inode, dst_name))

\* cp: the destination entry exists and names a regular file other than the source
CpOverwrite(F, data, dst_parent_inode, dst_name, old_id) ==
    LET RolledBack(new_id, back) ==
            Reply("PATH NOT FOUND",
                  free_inode(write_inode(back.fs, back.inode.id, back.inode).fs, new_id).fs)
        Added(new_id, add) ==
            IF ~add.ok
            THEN RolledBack(new_id, dir_add_entry(add.fs, add.inode, dst_name, old_id))
            ELSE Reply("OK", free_inode(write_inode(add.fs, add.inode.id, add.inode).fs,
                                        old_id).fs)
        Removed(new_id, rem) ==
            IF ~rem.ok THEN Reply("PATH NOT FOUND", free_inode(rem.fs, new_id).fs)
            ELSE Added(new_id, dir_add_entry(write_inode(rem.fs, rem.inode.id, rem.inode).fs,
                                             rem.inode, dst_name, new_id))
        Written(new_id, w) ==
            IF ~w.ok THEN Reply("FILE NOT FOUND", free_inode(w.fs, new_id).fs)
            ELSE Removed(new_id, dir_remove_entry(write_inode(w.fs, new_id, w.inode).fs,
                                                  dst_parent_inode, dst_name))
        Allocated(a) ==
            IF ~a.some THEN Reply("FILE NOT FOUND", F)
            ELSE Written(a.id, CpWriteData(F, a.id, data))
    IN Allocated(alloc_inode(F))

cp_cmd(F, src_path, dst_path) ==
    LET Existing(src_id, data, pn, existing) ==
            IF ~existing.ok THEN Reply("PATH NOT FOUND", F)
            ELSE IF existing.found /\ existing.entry.inode_id = src_id THEN Reply("OK", F)
            ELSE IF existing.found
            THEN IF ~InodeInRange(F, existing.entry.inode_id) THEN Reply("PATH NOT FOUND", F)
                 ELSE IF read_inode(F, existing.entry.inode_id).file_type # 0
                 THEN Reply("PATH NOT FOUND", F)
                 ELSE CpOverwrite(F, data, read_inode(F, pn.id), pn.name,
                                  read_inode(F, existing.entry.inode_id).id)
            ELSE CpCreate(F, data, read_inode(F, pn.id), pn.name)
        Parent(src_id, data, pn) ==
            IF ~pn.ok THEN Reply("PATH NOT FOUND", F)
            ELSE IF pn.name = <<>> \/ pn.name = DotName \/ pn.name = DotDotName
            THEN Reply("PATH NOT FOUND", F)
            ELSE IF Len(pn.name) > DIR_NAME_LEN THEN Reply("NAME TOO LONG", F)
            ELSE IF ~InodeInRange(F, pn.id) THEN Reply("PATH NOT FOUND", F)
            ELSE IF read_inode(F, pn.id).file_type # 1 THEN Reply("PATH NOT FOUND", F)
            ELSE Existing(src_id, data, pn, dir_find(F, read_inode(F, pn.id), pn.name))
        Dest(src_id, data, dr) ==
            IF dr.ok /\ InodeInRange(F, dr.id) /\ read_inode(F, dr.id).file_type = 1
            THEN Reply("PATH NOT FOUND", F)
            ELSE Parent(src_id, data, resolve_parent_and_name(F, dst_path))
        Loaded(src_id, rd) ==
            IF ~rd.ok THEN Reply("FILE NOT FOUND", F)
            ELSE IF dst_path = DotName \/ dst_path = DotDotName \/ EndsWithSlash(dst_path)
            THEN Reply("PATH NOT FOUND", F)
            ELSE Dest(src_id, rd.data, resolve_path(F, dst_path))
        Source(sr) ==
            IF ~sr.ok THEN Reply("FILE NOT FOUND", F)
            ELSE IF ~InodeInRange(F, sr.id) THEN Reply("FILE NOT FOUND", F)
            ELSE IF read_inode(F, sr.id).file_type # 0 THEN Reply("FILE NOT FOUND", F)
            ELSE Loaded(sr.id, read_file_range(F, read_inode(F, sr.id), 0,
                                               read_inode(F, sr.id).file_size))
    IN Source(resolve_path(F, src_path))

\* size of the buffer incp reads the host file through
INCP_BUF == 65536

\* the copy loop of incp: one write_file_range per chunk read from the host file
RECURSIVE IncpLoop(_, _, _, _)
IncpLoop(F, inode, data, offset) ==
    IF offset >= Len(data) THEN [ok |-> TRUE, err |-> "", fs |-> F, inode |-> inode]
    ELSE LET n == Min(INCP_BUF, Len(data) - offset)
             Written(w) == IF ~w.ok THEN w ELSE IncpLoop(w.fs, w.inode, data, offset + n)
         IN Written(write_file_range(F, inode, offset, SubSeq(data, offset + 1, offset + n)))

RECURSIVE TrimEndSlashes(_)
TrimEndSlashes(s) ==
    IF EndsWithSlash(s) THEN TrimEndSlashes(SubSeq(s, 1, Len(s) - 1)) ELSE s

\* host is the host file: [exists, base (its file name), data (its bytes)]
incp_cmd(F, host, fs_dest) ==
    LET dir_path == IF fs_dest = DotName THEN DotName
                    ELSE IF EndsWithSlash(fs_dest) THEN TrimEndSlashes(fs_dest)
                    ELSE fs_dest
        Added(new_id, add) ==
            IF ~add.ok THEN Reply("PATH NOT FOUND", free_inode(add.fs, new_id).fs)
            ELSE Reply("OK", add.fs)
        Written(pn, new_id, w) ==
            IF ~w.ok THEN Reply("PATH NOT FOUND", free_inode(w.fs, new_id).fs)
            ELSE Added(new_id, dir_add_entry(w.fs, read_inode(F, pn.id), pn.name, new_id))
        Allocated(pn, a) ==
            IF ~a.some THEN Reply("PATH NOT FOUND", F)
            ELSE Written(pn, a.id,
                         IncpLoop(write_inode(F, a.id, NewInode(a.id, 0)).fs,
                                  NewInode(a.id, 0), host.data, 0))
        Looked(pn, f) ==
            IF ~f.ok \/ f.found THEN Reply("PATH NOT FOUND", F)
            ELSE Allocated(pn, alloc_inode(F))
        Parent(pn) ==
            IF ~pn.ok THEN Reply("PATH NOT FOUND", F)
            ELSE IF pn.name = <<>> \/ pn.name = DotName \/ pn.name = DotDotName
            THEN Reply("PATH NOT FOUND", F)
            ELSE IF Len(pn.name) > DIR_NAME_LEN THEN Reply("NAME TOO LONG", F)
            ELSE IF ~InodeInRange(F, pn.id) THEN Reply("PATH NOT FOUND", F)
            ELSE Looked(pn, dir_find(F, read_inode(F, pn.id), pn.name))
        IntoDir(dd) == Parent([ok |-> dd.ok, id |-> dd.id, name |-> host.base])
        Dest(dr) ==
            IF fs_dest = DotName \/ EndsWithSlash(fs_dest)
               \/ (dr.ok /\ InodeInRange(F, dr.id) /\ read_inode(F, dr.id).file_type = 1)
            THEN IntoDir(resolve_path(F, dir_path))
            ELSE Parent(resolve_parent_and_name(F, fs_dest))
    IN IF ~host.exists THEN Reply("FILE NOT FOUND", F)
       ELSE Dest(resolve_path(F, fs_dest))

slink_cmd(F, target_path_str, link_path) ==
    LET Added(new_id, add) ==
            IF ~add.ok
            THEN Reply(IF add.err = "AlreadyExists" THEN "EXIST"
                       ELSE IF add.err \in {"InvalidName", "NotFound"} THEN "PATH NOT FOUND"
                       ELSE "CANNOT CREATE FILE",
                       free_inode(add.fs, new_id).fs)
            ELSE Reply("OK", add.fs)
        Written(pn, new_id, w) ==
            IF ~w.ok THEN Reply("CANNOT CREATE FILE", free_inode(w.fs, new_id).fs)
            ELSE Added(new_id, dir_add_entry(write_inode(w.fs, new_id, w.inode).fs,
                                             read_inode(F, pn.id), pn.name, new_id))
        Allocated(pn, a) ==
            IF ~a.some THEN Reply("CANNOT CREATE FILE", F)
            ELSE Written(pn, a.id, write_file_range(F, NewInode(a.id, 2), 0, target_path_str))
        Looked(pn, f) ==
            IF ~f.ok THEN Reply("PATH NOT FOUND", F)
            ELSE IF f.found THEN Reply("EXIST", F)
            ELSE Allocated(pn, alloc_inode(F))
        Parent(pn) ==
            IF ~pn.ok THEN Reply("PATH NOT FOUND", F)
            ELSE IF pn.name = <<>> \/ Len(pn.name) > DIR_NAME_LEN
            THEN Reply("PATH NOT FOUND", F)
            ELSE IF ~InodeInRange(F, pn.id) THEN Reply("PATH NOT FOUND", F)
            ELSE IF read_inode(F, pn.id).file_type # 1 THEN Reply("PATH NOT FOUND", F)
            ELSE Looked(pn, dir_find(F, read_inode(F, pn.id), pn.name))
    IN Parent(resolve_parent_and_name(F, link_path))


\* a faulty basename: the first component of the path
basename_first(path) ==
    LET comps == SplitPath(path)
    IN IF comps = <<>> THEN path ELSE comps[1]

\* path.rsplit('/').find(|s| !s.is_empty()).unwrap_or(path)
basename(path) ==
    LET comps == SplitPath(path)
    IN IF comps = <<>> THEN path ELSE comps[Len(comps)]

\* mv, from "Add new entry in destination parent" to the end
MvAddAndRemove(F, dst_parent_inode, dst_name, src_inode_id, src_parent_id, src_name) ==
    LET Removed(rem) ==
            IF ~rem.ok THEN Reply("PATH NOT FOUND", rem.fs) ELSE Reply("OK", rem.fs)
        Added(add) ==
            IF ~add.ok THEN Reply("PATH NOT FOUND", add.fs)
            ELSE Removed(dir_remove_entry(add.fs, read_inode(add.fs, src_parent_id), src_name))
    IN Added(dir_add_entry(F, dst_parent_inode, dst_name, src_inode_id))

\* mv, the branch where the destination entry exists and is not the source inode
MvReplace(F, dst_parent_inode, dst_name, existing_id, src_inode_id, src_parent_id, src_name) ==
    LET Freed(add, fr) ==
            IF ~fr.ok THEN Reply("PATH NOT FOUND", fr.fs)
            ELSE MvAddAndRemove(fr.fs, add.inode, dst_name, src_inode_id, src_parent_id,
                                src_name)
        Redone(redo) == Reply("PATH NOT FOUND", redo.fs)
        Undone(undo) == Redone(dir_add_entry(undo.fs, undo.inode, dst_name, existing_id))
        SrcRemoved(add, srem) ==
            IF ~srem.ok THEN Undone(dir_remove_entry(srem.fs, add.inode, dst_name))
            ELSE Freed(add, free_inode(srem.fs, read_inode(F, existing_id).id))
        Back(back) == Reply("PATH NOT FOUND", back.fs)
        Added(add) ==
            IF ~add.ok THEN Back(dir_add_entry(add.fs, add.inode, dst_name, existing_id))
            ELSE SrcRemoved(add, dir_remove_entry(add.fs, read_inode(add.fs, src_parent_id),
                                                  src_name))
        Removed(rem) ==
            IF ~rem.ok THEN Reply("PATH NOT FOUND", rem.fs)
            ELSE Added(dir_add_entry(rem.fs, rem.inode, dst_name, src_inode_id))
        Emptiness(e) ==
            IF ~(e.ok /\ e.empty) THEN Reply("PATH NOT FOUND", F)
            ELSE Removed(dir_remove_entry(F, dst_parent_inode, dst_name))
    IN IF ~InodeInRange(F, existing_id) THEN Reply("PATH NOT FOUND", F)
       ELSE IF read_inode(F, existing_id).file_type = 1
       THEN Emptiness(dir_is_empty(F, read_inode(F, existing_id)))
       ELSE Removed(dir_remove_entry(F, dst_parent_inode, dst_name))

\* mv, from the dir_find of the destination name in its parent to the end
MvExisting(F, src_id, spn, dst, existing) ==
    LET SelfRemoved(srem) ==
            IF ~srem.ok THEN Reply("PATH NOT FOUND", srem.fs) ELSE Reply("OK", srem.fs)
    IN IF ~existing.ok THEN Reply("PATH NOT FOUND", F)
       ELSE IF existing.found /\ existing.entry.inode_id = src_id
       THEN IF spn.id # dst.id
            THEN SelfRemoved(dir_remove_entry(F, read_inode(F, spn.id), spn.name))
            ELSE Reply("OK", F)
       ELSE IF existing.found
       THEN MvReplace(F, read_inode(F, dst.id), dst.name, existing.entry.inode_id,
                      src_id, spn.id, spn.name)
       ELSE MvAddAndRemove(F, read_inode(F, dst.id), dst.name, src_id, spn.id, spn.name)

\* mv, from "Disallow special names as destination" on; dst is the destination
\* parent and the final name
MvDest(F, src_id, spn, dst) ==
    IF ~dst.ok THEN Reply("PATH NOT FOUND", F)
    ELSE IF dst.name = DotName \/ dst.name = DotDotName THEN Reply("PATH NOT FOUND", F)
    ELSE IF ~InodeInRange(F, dst.id) THEN Reply("PATH NOT FOUND", F)
    ELSE IF read_inode(F, dst.id).file_type # 1 THEN Reply("PATH NOT FOUND", F)
    ELSE IF dst.id = spn.id /\ dst.name = spn.name THEN Reply("OK", F)
    ELSE MvExisting(F, src_id, spn, dst, dir_find(F, read_inode(F, dst.id), dst.name))

\* mv, "Decide destination parent and final name"; dr is resolve_path(dst_path)
MvDecide(F, src_path, dst_path, src_id, spn, dr) ==
    IF dr.ok /\ dr.id = src_id THEN Reply("OK", F)
    ELSE IF dr.ok /\ ~InodeInRange(F, dr.id) THEN Reply("PATH NOT FOUND", F)
    ELSE MvDest(F, src_id, spn,
                IF dr.ok /\ read_inode(F, dr.id).file_type = 1
                THEN [ok |-> TRUE, id |-> dr.id, name |-> basename(src_path)]
                ELSE resolve_parent_and_name(F, dst_path))

mv_cmd(F, src_path, dst_path) ==
    LET SrcParent(src_id, spn) ==
            IF ~spn.ok THEN Reply("PATH NOT FOUND", F)
            ELSE IF ~InodeInRange(F, spn.id) THEN Reply("PATH NOT FOUND", F)
            ELSE MvDecide(F, src_path, dst_path, src_id, spn, resolve_path(F, dst_path))
        Source(sr) ==
            IF ~sr.ok THEN Reply("FILE NOT FOUND", F)
            ELSE SrcParent(sr.id, resolve_parent_and_name(F, src_path))
    IN Source(resolve_path(F, src_path))


-----------------------------------------------------------------------------
(* Context and format.  C is the Context together with the image file:      *)
(*   [fs_open, img_sb, fs]   (fs is the facade record F; while no           *)
(*   FileSystem object exists its in-memory fields hold the values of       *)
(*   NoFs).  Context.fs_path is Some from program start on and is left out. *)

IsDigit(c) == c >= 48 /\ c <= 57

\* to_ascii_uppercase of one character
ToUpper(c) == IF c >= 97 /\ c <= 122 THEN c - 32 ELSE c

\* index (0-based) of the first non-digit at or after i, or 0 when there is none
RECURSIVE FirstNonDigit(_, _)
FirstNonDigit(s, i) ==
    IF i >= Len(s) THEN 0
    ELSE IF ~IsDigit(s[i + 1]) THEN i
    ELSE FirstNonDigit(s, i + 1)

split_number_unit(s) ==
    LET idx == FirstNonDigit(s, 0)
    IN IF idx = 0
       THEN IF \A i \in 1..Len(s) : IsDigit(s[i])
            THEN [num |-> s, unit |-> <<>>]
            ELSE [num |-> <<>>, unit |-> s]
       ELSE IF idx >= Len(s) THEN [num |-> s, unit |-> <<>>]
       ELSE [num |-> SubSeq(s, 1, idx), unit |-> SubSeq(s, idx + 1, Len(s))]

\* str::parse::<u64> of a string of digits
RECURSIVE ParseDigits(_, _)
ParseDigits(s, acc) ==
    IF s = <<>> THEN acc
    ELSE ParseDigits(Tail(s), acc * 10 + (Head(s) - 48))

parse_size(s) ==
    LET nu == split_number_unit(s)
        base == ParseDigits(nu.num, 0)
        unit == [i \in 1..Len(nu.unit) |-> ToUpper(nu.unit[i])]
        mul == IF unit = <<>> \/ unit = <<66>> THEN 1
               ELSE IF unit = <<75, 66>> THEN 1024
               ELSE IF unit = <<77, 66>> THEN 1024 * 1024
               ELSE IF unit = <<71, 66>> THEN 1024 * 1024 * 1024
               ELSE 0
    IN IF s = <<>> THEN [ok |-> FALSE, val |-> 0]
       ELSE IF nu.num = <<>> THEN [ok |-> FALSE, val |-> 0]
       ELSE IF mul = 0 THEN [ok |-> FALSE, val |-> 0]
       ELSE [ok |-> TRUE, val |-> base * mul]

\* the in-memory fields while Context.fs is None
NoFs(F) ==
    [F EXCEPT !.sb = NoSb, !.data_bitmap = {}, !.bitmap_dirty = FALSE,
              !.cwd_inode = 0, !.cwd_stack = <<>>, !.cwd_path = <<SLASH>>]

\* FileSystem::open on the image: read_superblock checks the magic, load_bitmap
\* reads the bitmap region, the working directory is the root
open(F, isb) ==
    IF isb.magic # FS_MAGIC THEN [ok |-> FALSE, fs |-> NoFs(F)]
    ELSE [ok |-> TRUE,
          fs |-> [F EXCEPT !.sb = isb,
                           !.data_bitmap = IF isb.bitmap_count = 0 THEN {}
                                           ELSE F.img_bitmap,
                           !.bitmap_dirty = FALSE, !.cwd_inode = isb.root_inode_id,
                           !.cwd_stack = <<>>, !.cwd_path = <<SLASH>>]]

open_fs(C) ==
    LET o == open(C.fs, C.img_sb)
    IN [C EXCEPT !.fs_open = o.ok, !.fs = o.fs]

close_fs(C) ==
    IF C.fs_open THEN [C EXCEPT !.fs_open = FALSE, !.fs = NoFs(flush(C.fs))]
    ELSE C

\* a faulty FormatImage: the inode table is left as it is when its size stays
FormatImageKeep(F, nsb) ==
    [F EXCEPT !.img_bitmap = {},
              !.inodes = IF DOMAIN F.inodes = 0..(nsb.inode_count - 1) THEN F.inodes
                         ELSE [i \in 0..(nsb.inode_count - 1) |-> ZeroInode],
              !.blocks = [b \in nsb.block_start..(nsb.block_start + nsb.block_count - 1) |->
                              IF b \in DOMAIN F.blocks THEN F.blocks[b] ELSE ZeroBlock]]

\* the image after format has written the superblock nsb and zeroed the bitmap
\* and the inode table; a data block keeps its bytes, a block the file did not
\* have before reads as zeros
FormatImage(F, nsb) ==
    [F EXCEPT !.img_bitmap = {},
              !.inodes = [i \in 0..(nsb.inode_count - 1) |-> ZeroInode],
              !.blocks = [b \in nsb.block_start..(nsb.block_start + nsb.block_count - 1) |->
                              IF b \in DOMAIN F.blocks THEN F.blocks[b] ELSE ZeroBlock]]

format_cmd(C, size_str) ==
    LET C1 == close_fs(C)
        ps == parse_size(size_str)
        nsb == compute_layout(ps.val, BLOCK_SIZE, DEFAULT_BPI)
        img == FormatImage(C1.fs, nsb)
        root_id == nsb.root_inode_id
        rooted == [img EXCEPT !.inodes[root_id] = NewInode(root_id, 1)]
        C2 == open_fs([C1 EXCEPT !.img_sb = nsb, !.fs = rooted])
    IN IF ~ps.ok THEN [out |-> "CANNOT CREATE FILE", ctx |-> C1]
       ELSE IF nsb.inode_count = 0
       THEN [out |-> "CANNOT CREATE FILE", ctx |-> [C1 EXCEPT !.img_sb = nsb, !.fs = img]]
       ELSE IF ~C2.fs_open THEN [out |-> "CANNOT CREATE FILE", ctx |-> C2]
       ELSE [out |-> "OK", ctx |-> C2]

cd_cmd(F, target) ==
    LET r == cd(F, target)
    IN IF r.ok THEN Reply("OK", r.fs) ELSE Reply("PATH NOT FOUND", r.fs)

\* cd with its argument list: none means "/", more than one is refused
cd_argv(F, argv) ==
    IF Len(argv) = 0 THEN cd_cmd(F, <<SLASH>>)
    ELSE IF Len(argv) = 1 THEN cd_cmd(F, argv[1])
    ELSE Reply("PATH NOT FOUND", F)

\* info: the name printed for the path
last_component_or_root(path) ==
    LET comps == SplitPath(path)
    IN IF comps = <<>> THEN <<SLASH>> ELSE comps[Len(comps)]

\* a faulty scan: a symlink inode is counted whatever its target resolves to
points_any(F, sid, inode_id) ==
    /\ read_inode(F, sid).file_type = 2
    /\ read_inode(F, sid).link_count # 0

\* info, the body of the scan: inode sid is a live symlink whose stored target
\* resolves to inode_id
points_to(F, sid, inode_id) ==
    /\ read_inode(F, sid).file_type = 2
    /\ read_inode(F, sid).link_count # 0
    /\ readlink_target(F, sid).ok
    /\ resolve_path(F, readlink_target(F, sid).target).ok
    /\ resolve_path(F, readlink_target(F, sid).target).id = inode_id

\* info <path>: the line printed, as the format and its arguments
info_cmd(F, path) ==
    LET Line(inode_id) ==
            [out |-> "NAME - SIZE B - i-node ID - soft links: COUNT",
             line |-> [name |-> last_component_or_root(path),
                       file_size |-> read_inode(F, inode_id).file_size,
                       inode_id |-> inode_id,
                       soft_links |->
                           Cardinality({sid \in 0..(F.sb.inode_count - 1) :
                                           points_to(F, sid, inode_id)})]]
        Resolved(r) ==
            IF ~r.ok THEN [out |-> "FILE NOT FOUND"]
            ELSE IF ~InodeInRange(F, r.id) THEN [out |-> "FILE NOT FOUND"]
            ELSE Line(r.id)
    IN Resolved(resolve_path(F, path))

\* statfs: the statistics are read from the image file, opened a second time
statfs_cmd(C) ==
    IF C.img_sb.magic # FS_MAGIC THEN [out |-> "FILE NOT FOUND"]
    ELSE LET isb == C.img_sb
             used_blocks ==
                 Cardinality({idx \in 0..(isb.block_count - 1) :
                                 bitmap_is_set(C.fs.img_bitmap, idx)})
             live == {id \in 0..(isb.inode_count - 1) : C.fs.inodes[id].link_count # 0}
             used_inodes == Cardinality(live)
             dirs == Cardinality({id \in live : C.fs.inodes[id].file_type = 1})
         IN [out |-> "STATS",
             line |-> [fs_size |-> isb.fs_size,
                       block_size |-> BLOCK_SIZE,
                       blocks_all |-> isb.block_count,
                       blocks_used |-> used_blocks,
                       blocks_free |-> IF isb.block_count > used_blocks
                                       THEN isb.block_count - used_blocks ELSE 0,
                       inodes_all |-> isb.inode_count,
                       inodes_used |-> used_inodes,
                       inodes_free |-> IF isb.inode_count > used_inodes
                                       THEN isb.inode_count - used_inodes ELSE 0,
                       dirs |-> dirs]]

\* what a handler prints when Context.fs is None
NoFsReply(name) ==
    IF name \in {"rmdir", "rm", "rmslink", "info"} THEN "FILE NOT FOUND" ELSE "PATH NOT FOUND"

\* Registry::dispatch around a handler that left the context C2: the working
\* directory saved before the handler is restored, best effort, except for cd
dispatch(name, C, C2) ==
    IF name # "cd" /\ C.fs_open /\ C2.fs_open
    THEN [C2 EXCEPT !.fs = cd(C2.fs, pwd(C.fs)).fs]
    ELSE C2


-----------------------------------------------------------------------------
(* The shell as a state machine: one step per command line dispatched, and  *)
(* one for a new start of the program on the same image after exit.        *)

CurF ==
    [sb |-> sb, data_bitmap |-> data_bitmap, bitmap_dirty |-> bitmap_dirty,
     cwd_inode |-> cwd_inode, cwd_stack |-> cwd_stack, cwd_path |-> cwd_path,
     img_bitmap |-> img_bitmap, inodes |-> inodes, blocks |-> blocks]

Ctx == [fs_open |-> fs_open, img_sb |-> img_sb, fs |-> CurF]

Install(C) ==
    /\ fs_open' = C.fs_open
    /\ img_sb' = C.img_sb
    /\ img_bitmap' = C.fs.img_bitmap
    /\ inodes' = C.fs.inodes
    /\ blocks' = C.fs.blocks
    /\ sb' = C.fs.sb
    /\ data_bitmap' = C.fs.data_bitmap
    /\ bitmap_dirty' = C.fs.bitmap_dirty
    /\ cwd_inode' = C.fs.cwd_inode
    /\ cwd_stack' = C.fs.cwd_stack
    /\ cwd_path' = C.fs.cwd_path

\* tui::handle_app_loop reads one line and dispatches it; C2 and out are what
\* the handler left and printed
Dispatched(name, C2, out) ==
    /\ running
    /\ ncmds > 0
    /\ Install(dispatch(name, Ctx, C2))
    /\ ncmds' = ncmds - 1
    /\ last' = [cmd |-> name, out |-> out]
    /\ UNCHANGED running

\* a handler that works on the open filesystem and printed r.out
OnFs(name, r) == Dispatched(name, [Ctx EXCEPT !.fs = r.fs], r.out)

\* the program has been started on a path where no image exists yet, and n
\* command lines wait on its standard input
Boot(n) ==
    /\ running = TRUE
    /\ fs_open = FALSE
    /\ img_sb = NoSb
    /\ img_bitmap = {}
    /\ inodes = <<>>
    /\ blocks = <<>>
    /\ sb = NoSb
    /\ data_bitmap = {}
    /\ bitmap_dirty = FALSE
    /\ cwd_inode = 0
    /\ cwd_stack = <<>>
    /\ cwd_path = <<SLASH>>
    /\ ncmds = n
    /\ last = [cmd |-> "start", out |-> ""]

Init == Boot(MaxCmds)

Format(Sizes) ==
    \E size_str \in Sizes :
        LET r == format_cmd(Ctx, size_str)
        IN Dispatched("format", r.ctx, r.out)

Mkdir(P) ==
    \E p \in P :
        OnFs("mkdir", IF fs_open THEN mkdir_cmd(CurF, p)
                      ELSE Reply(NoFsReply("mkdir"), CurF))

Rmdir(P) ==
    \E p \in P :
        OnFs("rmdir", IF fs_open THEN rmdir_cmd(CurF, p)
                      ELSE Reply(NoFsReply("rmdir"), CurF))

Rm(P) ==
    \E p \in P :
        OnFs("rm", IF fs_open THEN rm_cmd(CurF, p) ELSE Reply(NoFsReply("rm"), CurF))

Rmslink(P) ==
    \E p \in P :
        OnFs("rmslink", IF fs_open THEN rmslink_cmd(CurF, p)
                        ELSE Reply(NoFsReply("rmslink"), CurF))

Cd(P) ==
    \E p \in P :
        OnFs("cd", IF fs_open THEN cd_argv(CurF, p) ELSE Reply(NoFsReply("cd"), CurF))

Cp(S, D) ==
    \E s \in S, d \in D :
        OnFs("cp", IF fs_open THEN cp_cmd(CurF, s, d) ELSE Reply(NoFsReply("cp"), CurF))

Mv(S, D) ==
    \E s \in S, d \in D :
        OnFs("mv", IF fs_open THEN mv_cmd(CurF, s, d) ELSE Reply(NoFsReply("mv"), CurF))

Slink(T, L) ==
    \E t \in T, l \in L :
        OnFs("slink", IF fs_open THEN slink_cmd(CurF, t, l)
                      ELSE Reply(NoFsReply("slink"), CurF))

\* the host file is opened before the filesystem is looked at
Incp(H, D) ==
    \E h \in H, d \in D :
        OnFs("incp", IF ~h.exists THEN Reply("FILE NOT FOUND", CurF)
                     ELSE IF fs_open THEN incp_cmd(CurF, h, d)
                     ELSE Reply(NoFsReply("incp"), CurF))

\* exit ends the process; the FileSystem object is dropped as it is
\* a command that prints and changes nothing: r is what it prints
Printed(name, r) ==
    /\ running
    /\ ncmds > 0
    /\ Install(dispatch(name, Ctx, Ctx))
    /\ ncmds' = ncmds - 1
    /\ last' = [cmd |-> name] @@ r
    /\ UNCHANGED running

Info(P) ==
    \E p \in P :
        Printed("info", IF fs_open THEN info_cmd(CurF, p) ELSE [out |-> NoFsReply("info")])

Statfs == Printed("statfs", statfs_cmd(Ctx))

Exit ==
    /\ running
    /\ ncmds > 0
    /\ running' = FALSE
    /\ Install([Ctx EXCEPT !.fs_open = FALSE, !.fs = NoFs(CurF)])
    /\ ncmds' = ncmds - 1
    /\ last' = [cmd |-> "exit", out |-> ""]

\* the program is started again on the same image: handle_fs -> open_fs
Start ==
    /\ ~running
    /\ running' = TRUE
    /\ Install(open_fs(Ctx))
    /\ last' = [cmd |-> "start", out |-> ""]
    /\ UNCHANGED ncmds

-----------------------------------------------------------------------------
(* Inputs.  Paths and sizes are the strings typed at the prompt, as         *)
(* sequences of character codes; a host file is [exists, base, data].       *)

PathA == <<SLASH, 97>>          \* "/a"
NameB == <<98>>                 \* "b"
NameC == <<99>>                 \* "c"
PathF == <<SLASH, 102>>         \* "/f"
PathG == <<SLASH, 103>>         \* "/g"
PathL == <<SLASH, 108>>         \* "/l"
BadSize == <<120>>              \* "x": no digits, parse_size refuses it

\* the decimal digits of n
RECURSIVE Decimal(_)
Decimal(n) == IF n < 10 THEN <<48 + n>> ELSE Append(Decimal(n \div 10), 48 + (n % 10))

\* image sizes, in blocks, of the two kinds of session below
DirImageBlocks == 11
FileImageBlocks == 22

DirSize == Decimal(DirImageBlocks * BLOCK_SIZE)
FileSize == Decimal(FileImageBlocks * BLOCK_SIZE)

\* a host file of n bytes whose i-th byte is i * k mod 256
HostFile(base, n, k) ==
    [exists |-> TRUE, base |-> base, data |-> [i \in 1..n |-> (i * k) % 256]]

HostBig == HostFile(<<104>>, NDIRECT * BLOCK_SIZE + 1, 7)
HostFull == HostFile(<<105>>, NDIRECT * BLOCK_SIZE, 11)
HostMid == HostFile(<<106>>, BLOCK_SIZE + 1, 13)
HostOne == HostFile(<<107>>, 1, 17)

\* a session that builds a chain of symlinks: a directory /T, link 1 -> /T,
\* link k -> link k - 1.  The first RootLinks links lie in the root directory
\* and name their target by its absolute path; the others lie in /D and name
\* their target relative to /D.  Last comes /Z, a link to itself.
PathT == <<SLASH, 84>>          \* "/T"
PathD == <<SLASH, 68>>          \* "/D"
PathZ == <<SLASH, 90>>          \* "/Z"
ChainMax == MAX_SYMLINK_DEPTH + 1
RootLinks == NDIRECT * EntriesPerBlock - 3
LinkName(k) == <<96 + k>>
LinkPath(k) ==
    IF k = 0 THEN PathT
    ELSE IF k > ChainMax THEN PathZ
    ELSE IF k <= RootLinks THEN <<SLASH>> \o LinkName(k)
    ELSE PathD \o <<SLASH>> \o LinkName(k)
LinkTarget(k) ==
    IF k > ChainMax THEN PathZ
    ELSE IF k - 1 > RootLinks THEN LinkName(k - 1)
    ELSE LinkPath(k - 1)

\* command lines of a chain session, and the blocks of its image
MaxLinkCmds == 21
LinkImageBlocks == 81
LinkSize == Decimal(LinkImageBlocks * BLOCK_SIZE)

-----------------------------------------------------------------------------
(* Sessions.  Spec: directories, renames, one symlink, exit and a new start *)
(* on the same image.  SpecFile: files copied in, copied, linked, removed.  *)

Next ==
    \/ Format({DirSize, BadSize})
    \/ Mkdir({PathA, NameB})
    \/ Rmdir({PathA, NameB})
    \/ Cd({<<PathA>>, <<DotDotName>>})
    \/ Mv({PathA, DotDotName}, {NameB, NameC})
    \/ Slink({PathA}, {PathL})
    \/ Rmslink({PathL})
    \/ Exit
    \/ Start

Spec == Init /\ [][Next]_vars

InitFile == Boot(MaxFileCmds)

NextFile ==
    \/ Format({FileSize})
    \/ Incp({HostBig, HostFull, HostMid, HostOne}, {PathF, PathG})
    \/ Cp({PathF, PathG}, {PathF, PathG})
    \/ Rm({PathF, PathG})
    \/ Slink({PathF}, {PathL})
    \/ Rmslink({PathL})

SpecFile == InitFile /\ [][NextFile]_vars

\* the last name of path p is present in its parent directory
Present(p) ==
    LET pn == resolve_parent_and_name(CurF, p)
    IN /\ fs_open
       /\ pn.ok
       /\ InodeInRange(CurF, pn.id)
       /\ dir_find(CurF, read_inode(CurF, pn.id), pn.name).found

InitLink == Boot(MaxLinkCmds)

\* the user formats the new image once, makes the two directories once, links
\* only to a name that exists and enters /D once
NextLink ==
    \/ ~fs_open /\ Format({LinkSize})
    \/ \E p \in {PathT, PathD} : fs_open /\ ~Present(p) /\ Mkdir({p})
    \/ \E k \in 1..(ChainMax + 1) :
          Present(LinkPath(k - 1)) /\ ~Present(LinkPath(k))
              /\ Slink({LinkTarget(k)}, {LinkPath(k)})
    \/ Present(PathD) /\ cwd_path = <<SLASH>> /\ Cd({<<PathD>>})

SpecLink == InitLink /\ [][NextLink]_vars
\* a session that copies files in, moves them between / and /D and changes
\* the working directory
PathDF == PathD \o PathF         \* "/D/f"
PathDSlash == PathD \o <<SLASH>> \* "/D/"
MaxMoveCmds == 5

InitMove == Boot(MaxMoveCmds)

NextMove ==
    \/ ~fs_open /\ Format({FileSize})
    \/ fs_open /\ Mkdir({PathD})
    \/ fs_open /\ Incp({HostMid, HostOne}, {PathF, PathG, PathDF})
    \/ fs_open /\ Mv({PathF, PathG, PathDF}, {PathDSlash, <<SLASH>>})
    \/ fs_open /\ Cd({<<>>, <<PathD>>, <<PathF>>, <<PathD, PathD>>})

SpecMove == InitMove /\ [][NextMove]_vars
\* a session that copies files in, links and unlinks them, and asks for
\* info and statfs
PathM == <<SLASH, 109>>         \* "/m"
MaxInfoCmds == 5

InitInfo == Boot(MaxInfoCmds)

NextInfo ==
    \/ ~fs_open /\ Format({FileSize})
    \/ fs_open /\ Incp({HostOne}, {PathF, PathG})
    \/ fs_open /\ Slink({PathF, PathL}, {PathL, PathM})
    \/ fs_open /\ Rmslink({PathL, PathM})
    \/ fs_open /\ Rm({PathF})
    \/ Info({PathF, PathL})
    \/ Statfs

SpecInfo == InitInfo /\ [][NextInfo]_vars
\* a session from a start on an image that is not there: the user tries the
\* commands while no filesystem is open, formats, leaves and starts again
MaxStartCmds == 6

InitStart == Boot(MaxStartCmds)

NextStart ==
    \/ Format({FileSize, BadSize})
    \/ ~fs_open /\ Mkdir({PathD})
    \/ ~fs_open /\ Rmdir({PathD})
    \/ ~fs_open /\ Rm({PathF})
    \/ ~fs_open /\ Cd({<<>>, <<PathD>>})
    \/ ~fs_open /\ Mv({PathF}, {PathG})
    \/ ~fs_open /\ Incp({HostOne}, {PathF})
    \/ ~fs_open /\ Slink({PathF}, {PathL})
    \/ ~fs_open /\ Rmslink({PathL})
    \/ ~fs_open /\ Info({PathF})
    \/ Statfs
    \/ Exit
    \/ Start

SpecStart == InitStart /\ [][NextStart]_vars
\* compute_layout applied to every image size up to MaxLayoutBytes and to
\* bytes-per-inode values below, at and above the block size; the superblock
\* it returns is written to the image, as format does first
MaxLayoutBytes == 24000
LayoutBpis == {0, 1, BLOCK_SIZE, DEFAULT_BPI, 2 * BLOCK_SIZE + 1, 4 * BLOCK_SIZE}

InitLayout == Boot(MaxCmds)

\* compute_layout applied once, to an image that has no superblock yet
Layout ==
    /\ running
    /\ img_sb = NoSb
    /\ \E fs_bytes \in 0..MaxLayoutBytes, bytes_per_inode \in LayoutBpis :
          img_sb' = compute_layout(fs_bytes, BLOCK_SIZE, bytes_per_inode)
    /\ last' = [cmd |-> "compute_layout", out |-> ""]
    /\ UNCHANGED <<running, fs_open, img_bitmap, inodes, blocks, sb, data_bitmap,
                   bitmap_dirty, cwd_inode, cwd_stack, cwd_path, ncmds>>

SpecLayout == InitLayout /\ [][Layout]_vars

\* a session that reaches a file and a directory through a symlink /l as well
\* as by their own names, and removes, moves and enters them
MaxSymCmds == 5

InitSym == Boot(MaxSymCmds)

NextSym ==
    \/ ~fs_open /\ Format({FileSize})
    \/ fs_open /\ Mkdir({PathD})
    \/ fs_open /\ Incp({HostOne}, {PathF})
    \/ fs_open /\ Slink({PathF, PathD}, {PathL})
    \/ fs_open /\ Rm({PathF, PathL})
    \/ fs_open /\ Rmdir({PathD, PathL})
    \/ fs_open /\ Rmslink({PathL})
    \/ fs_open /\ Mv({PathF, PathL}, {PathG, PathDSlash})
    \/ fs_open /\ Cd({<<PathL>>, <<DotDotName>>})

SpecSym == InitSym /\ [][NextSym]_vars

\* a session on an image whose bitmap has more than eight bits in use: files
\* of one to five blocks are copied in and removed, which leaves holes
AllocImageBlocks == 33
AllocSize == Decimal(AllocImageBlocks * BLOCK_SIZE)
MaxAllocCmds == 5

InitAlloc == Boot(MaxAllocCmds)

NextAlloc ==
    \/ ~fs_open /\ Format({AllocSize})
    \/ fs_open /\ Incp({HostFull, HostMid, HostOne}, {PathF, PathG, PathL})
    \/ fs_open /\ Rm({PathF, PathG})

SpecAlloc == InitAlloc /\ [][NextAlloc]_vars





-----------------------------------------------------------------------------
(* State functions the properties below are stated with *)

\* the inodes of the open filesystem that are live
LiveIds == {i \in DOMAIN inodes : inodes[i].link_count >= 1}

\* the non-zero block pointers of an inode: direct, single- and double-indirect
Pointers(ino) ==
    ({ino.single_directs[k] : k \in 1..NDIRECT}
        \cup {ino.single_indirect, ino.double_indirect}) \ {0}

InDataRange(s, b) == b >= s.block_start /\ b < s.block_start + s.block_count

\* the data blocks some live inode points to
Referenced == UNION {Pointers(inodes[i]) : i \in LiveIds}

\* bit indices of the data blocks that are free in the in-memory bitmap
FreeBits == {i \in 0..(sb.block_count - 1) : i \notin data_bitmap}

\* the bytes of the file in inode id of F
FileBytes(F, id) == read_file_range(F, F.inodes[id], 0, F.inodes[id].file_size).data

\* the live entries of directory d of F, as <<d, name, inode id>>
DirEntries(F, d) ==
    {<<d, name_str(deserialize(r.data)), deserialize(r.data).inode_id>> :
        r \in {q \in {read_file_range(F, F.inodes[d], i * DIR_ENTRY_SIZE, DIR_ENTRY_SIZE) :
                        i \in 0..(dir_entry_count(F.inodes[d]) - 1)} :
                 q.ok /\ ~is_unused(deserialize(q.data))}}

\* the live entries of all live directories of F
Entries(F) ==
    UNION {DirEntries(F, d) :
              d \in {i \in DOMAIN F.inodes :
                        F.inodes[i].link_count >= 1 /\ F.inodes[i].file_type = 1}}

\* the filesystem after the shell has dispatched command name, whose handler
\* found F and left r.fs
Then(F, name, r) ==
    dispatch(name, [fs_open |-> TRUE, img_sb |-> img_sb, fs |-> F],
             [fs_open |-> TRUE, img_sb |-> img_sb, fs |-> r.fs]).fs

\* the context of a program started where no image exists
FreshCtx ==
    [fs_open |-> FALSE, img_sb |-> NoSb,
     fs |-> [sb |-> NoSb, data_bitmap |-> {}, bitmap_dirty |-> FALSE, cwd_inode |-> 0,
             cwd_stack |-> <<>>, cwd_path |-> <<SLASH>>, img_bitmap |-> {},
             inodes |-> <<>>, blocks |-> <<>>]]

\* free_inode applied to inode 1 of an image opened at program start.  The
\* image is a formatted one whose inode 1 is a live file; each of its direct
\* pointers is 0, a data block of its own, or a block number past the data
\* area, and each indirect pointer is 0 or a data block of its own.
FreeInodeId == 1
MaxFreeCmds == 1

FreePointers(c) ==
    {[i \in 1..NDIRECT |->
         IF k[i] = 0 THEN 0
         ELSE IF k[i] = 1 THEN c.img_sb.block_start + i
         ELSE c.img_sb.block_start + c.img_sb.block_count] :
        k \in [1..NDIRECT -> 0..2]}

FreeImage(c, q, si, di) ==
    LET ino == [NewInode(FreeInodeId, 0) EXCEPT
                    !.single_directs = q,
                    !.single_indirect = si,
                    !.double_indirect = di,
                    !.file_size = BLOCK_SIZE]
        bits == {b - c.img_sb.block_start :
                    b \in {p \in Pointers(ino) : InDataRange(c.img_sb, p)}}
    IN open_fs([c EXCEPT !.fs.inodes[FreeInodeId] = ino,
                         !.fs.img_bitmap = c.fs.img_bitmap \cup bits])

InitFree == Boot(MaxFreeCmds)

\* the program is started anew on such an image
StartOnImage ==
    LET c == format_cmd(FreshCtx, FileSize).ctx
    IN /\ ~fs_open
       /\ \E q \in FreePointers(c),
             si \in {0, c.img_sb.block_start + NDIRECT + 1},
             di \in {0, c.img_sb.block_start + NDIRECT + 2} :
              Install(FreeImage(c, q, si, di))
       /\ last' = [cmd |-> "start", out |-> ""]
       /\ UNCHANGED <<running, ncmds>>

FreeInode ==
    LET r == free_inode(CurF, FreeInodeId)
    IN /\ running
       /\ ncmds > 0
       /\ fs_open
       /\ Install([Ctx EXCEPT !.fs = r.fs])
       /\ ncmds' = ncmds - 1
       /\ last' = [cmd |-> "free_inode", out |-> IF r.ok THEN "Ok" ELSE "Err"]
       /\ UNCHANGED running

NextFree == StartOnImage \/ FreeInode

SpecFree == InitFree /\ [][NextFree]_vars

\* what format leaves as metadata: superblock, bitmap region, inode table, and
\* the FileSystem object opened on them
Metadata(C) ==
    [fs_open |-> C.fs_open, img_sb |-> C.img_sb, img_bitmap |-> C.fs.img_bitmap,
     inodes |-> C.fs.inodes, sb |-> C.fs.sb, data_bitmap |-> C.fs.data_bitmap,
     cwd_inode |-> C.fs.cwd_inode, cwd_stack |-> C.fs.cwd_stack,
     cwd_path |-> C.fs.cwd_path]

RootIsRoot ==
    /\ 0 \in DOMAIN inodes
    /\ inodes[0].id = 0
    /\ inodes[0].file_type = 1
    /\ inodes[0].link_count = 1

-----------------------------------------------------------------------------
(* Properties *)

\* C1: while a filesystem is open, every non-zero block pointer of every live
\* inode lies in [block_start, block_start + block_count) and its bit is set in
\* the in-memory bitmap.
C1_PointersAllocated ==
    fs_open =>
        \A b \in Referenced :
            /\ InDataRange(sb, b)
            /\ bitmap_is_set(data_bitmap, b - sb.block_start)

\* C2: while a filesystem is open, every bit set in the in-memory bitmap is the
\* bit of a data block that some live inode points to.
C2_NoLeak ==
    fs_open =>
        \A i \in data_bitmap : (sb.block_start + i) \in Referenced

\* C3: while a formatted filesystem is open, inode 0 has id 0, file_type 1 and
\* link_count 1.
C3_RootKept == (fs_open /\ sb.inode_count > 0) => RootIsRoot

\* C8: a step that discards the open filesystem (exit, or format closing it
\* before it refuses its argument) leaves on the image the bitmap that was in
\* memory, so that the next open loads it.
C8_FlushedOnDiscard ==
    [][(fs_open /\ ~fs_open' /\ img_sb' = img_sb) => img_bitmap' = data_bitmap]_vars

\* data a ranged write is tried with: empty, one byte, one block, one block and
\* a byte, five blocks, five blocks and a byte
RoundTripData ==
    {HostFile(<<>>, n, 5).data :
        n \in {0, 1, BLOCK_SIZE, BLOCK_SIZE + 1, NDIRECT * BLOCK_SIZE,
               NDIRECT * BLOCK_SIZE + 1}}

\* C4: for every regular file f and data D, when write_file_range(f, 0, D)
\* succeeds, read_file_range(f, 0, |D|) succeeds and returns exactly D.
C4_WriteReadRoundTrip ==
    fs_open =>
        \A i \in LiveIds, D \in RoundTripData :
            inodes[i].file_type = 0 =>
                LET w == write_file_range(CurF, inodes[i], 0, D)
                    r == read_file_range(w.fs, w.inode, 0, Len(D))
                IN w.ok => (r.ok /\ r.data = D)

\* incp has written a file of five blocks with write_file_range(f, 0, D), and
\* read_file_range(f, 0, |D|) returns D
C4_Witness ==
    /\ fs_open
    /\ last = [cmd |-> "incp", out |-> "OK"]
    /\ \E i \in LiveIds :
          /\ inodes[i].file_type = 0
          /\ inodes[i].file_size = Len(HostFull.data)
          /\ read_file_range(CurF, inodes[i], 0, Len(HostFull.data)).data = HostFull.data

\* C5: with a free inode and five direct blocks, one more data block and a
\* pointer block free, a file of 5*B bytes and a file of 5*B+1 bytes can both
\* be written from offset 0 and read back.
C5_BeyondDirect ==
    (fs_open /\ Cardinality(FreeBits) >= NDIRECT + 2 /\ alloc_inode(CurF).some) =>
        \A D \in {HostFull.data, HostBig.data} :
            LET id == alloc_inode(CurF).id
                w == write_file_range(write_inode(CurF, id, NewInode(id, 0)).fs,
                                      NewInode(id, 0), 0, D)
                r == read_file_range(w.fs, w.inode, 0, Len(D))
            IN w.ok /\ r.ok /\ r.data = D

\* C6: when cp, incp or slink does not print OK, the bitmap is as before the
\* command, the inode the command would allocate is free, and the directory
\* entries are those of before.
C6_RolledBack ==
    [][(fs_open /\ ncmds' # ncmds /\ last'.cmd \in {"cp", "incp", "slink"}
           /\ last'.out # "OK")
       => /\ data_bitmap' = data_bitmap
          /\ alloc_inode(CurF).some => inodes'[alloc_inode(CurF).id].link_count = 0
          /\ Entries(CurF') = Entries(CurF)]_vars

\* incp has failed after it wrote blocks of the host file of 5*B+1 bytes: a
\* block holds the file's first bytes and is free again
C6_Witness ==
    /\ fs_open
    /\ last = [cmd |-> "incp", out |-> "PATH NOT FOUND"]
    /\ \E b \in DOMAIN blocks :
          /\ blocks[b] = SubSeq(HostBig.data, 1, BLOCK_SIZE)
          /\ ~bitmap_is_set(data_bitmap, b - sb.block_start)
    /\ \A i \in LiveIds : inodes[i].file_type = 1

MkdirRmdir(p) ==
    LET m == mkdir_cmd(CurF, p)
        F1 == Then(CurF, "mkdir", m)
        r == rmdir_cmd(F1, p)
    IN [made |-> m.out, removed |-> r.out, fs |-> Then(F1, "rmdir", r)]

\* C9 as stated: after mkdir p and rmdir p, both OK, the bitmap and every
\* inode, the parent directory's included, are as before.
C9_MkdirRmdirRestores ==
    fs_open =>
        \A p \in {PathA, NameB} :
            (MkdirRmdir(p).made = "OK" /\ MkdirRmdir(p).removed = "OK")
            => /\ MkdirRmdir(p).fs.data_bitmap = data_bitmap
               /\ MkdirRmdir(p).fs.inodes = inodes

\* the parent directory after mkdir and rmdir in it: unchanged when a free
\* slot was used again, else longer by one slot, with one more block (and its
\* bit) when the slot began a block
ParentGrown(old, new, bitmap_before, bitmap_after) ==
    \/ new = old /\ bitmap_after = bitmap_before
    \/ /\ new = [old EXCEPT !.file_size = old.file_size + DIR_ENTRY_SIZE,
                            !.single_directs = new.single_directs]
       /\ \/ new.single_directs = old.single_directs /\ bitmap_after = bitmap_before
          \/ \E k \in 1..NDIRECT :
                /\ old.single_directs[k] = 0
                /\ new.single_directs[k] # 0
                /\ new.single_directs = [old.single_directs EXCEPT ![k] = new.single_directs[k]]
                /\ (new.single_directs[k] - sb.block_start) \notin bitmap_before
                /\ bitmap_after = bitmap_before \cup {new.single_directs[k] - sb.block_start}

\* C9, amended: after mkdir p and rmdir p, both OK, the name is gone from the
\* parent, the inode that was allocated is free again (all fields zero but its
\* id), every other inode but the parent is as before, and the parent and the
\* bitmap are as before unless the entry needed a new slot: then the parent's
\* file_size is one slot larger and, when the slot began a new block, the
\* parent has one more block pointer whose bit is set.
C9_MkdirRmdirAmended ==
    fs_open =>
        \A p \in {PathA, NameB} :
            LET pn == resolve_parent_and_name(CurF, p)
                a == alloc_inode(CurF).id
                G == MkdirRmdir(p).fs
            IN (MkdirRmdir(p).made = "OK" /\ MkdirRmdir(p).removed = "OK")
               => /\ ~dir_find(G, read_inode(G, pn.id), pn.name).found
                  /\ G.inodes[a] = [ZeroInode EXCEPT !.id = a]
                  /\ \A i \in DOMAIN inodes \ {a, pn.id} : G.inodes[i] = inodes[i]
                  /\ ParentGrown(inodes[pn.id], G.inodes[pn.id], data_bitmap, G.data_bitmap)

\* "mkdir /a" and "rmdir /a" have run on a fresh filesystem: the root holds
\* one slot, free, in a block of its own, and inode 1 is free with its id kept
C9_Witness ==
    /\ fs_open
    /\ last = [cmd |-> "rmdir", out |-> "OK"]
    /\ RootIsRoot
    /\ inodes[0].file_size = DIR_ENTRY_SIZE
    /\ inodes[0].single_directs[1] # 0
    /\ data_bitmap = {inodes[0].single_directs[1] - sb.block_start}
    /\ dir_is_empty(CurF, inodes[0]).empty
    /\ inodes[1] = [ZeroInode EXCEPT !.id = 1]
    /\ \A i \in DOMAIN inodes \ {0, 1} : inodes[i] = ZeroInode

\* the sizes format is tried with in C10
FormatSizes == {DirSize, Decimal((DirImageBlocks + 2) * BLOCK_SIZE), BadSize}

\* C10: in every state of a running shell, "format S" prints what it prints on
\* a fresh image and, when that is OK, leaves the superblock, the bitmap
\* region (all zero), the inode table (inode 0 an empty directory with
\* link_count 1, every other inode zero) and the opened filesystem (working
\* directory the root) exactly as it does on a fresh image.
C10_FormatIndependent ==
    running =>
        \A S \in FormatSizes :
            LET r == format_cmd(Ctx, S)
                after == dispatch("format", Ctx, r.ctx)
                fresh == format_cmd(FreshCtx, S)
            IN /\ r.out = fresh.out
               /\ r.out = "OK" =>
                    /\ Metadata(after) = Metadata(dispatch("format", FreshCtx, fresh.ctx))
                    /\ after.fs.img_bitmap = {}
                    /\ after.fs.data_bitmap = {}
                    /\ \A i \in DOMAIN after.fs.inodes :
                          after.fs.inodes[i] = IF i = 0 THEN NewInode(0, 1) ELSE ZeroInode
                    /\ after.fs.cwd_inode = after.fs.sb.root_inode_id
                    /\ after.fs.cwd_path = <<SLASH>>
                    /\ after.fs.cwd_stack = <<>>

\* format has succeeded on an image that held data (a data block is not zero,
\* format leaves data blocks alone) and the metadata are those of a fresh format
C10_Witness ==
    /\ fs_open
    /\ last = [cmd |-> "format", out |-> "OK"]
    /\ \E b \in DOMAIN blocks : blocks[b] # ZeroBlock
    /\ Metadata(Ctx) = Metadata(format_cmd(FreshCtx, DirSize).ctx)

\* the resolution of comps from directory cur with no bound on the number of
\* symlink expansions, counting them in n; it gives up after WalkFuel of them
WalkFuel == MAX_SYMLINK_DEPTH + 1

RECURSIVE Walk(_, _, _, _, _)
Walk(F, cur, parents, comps, n) ==
    IF n > WalkFuel THEN [ok |-> FALSE, id |-> 0, n |-> n]
    ELSE IF comps = <<>> THEN [ok |-> TRUE, id |-> cur, n |-> n]
    ELSE IF Head(comps) = DotName THEN Walk(F, cur, parents, Tail(comps), n)
    ELSE IF Head(comps) = DotDotName
    THEN IF parents = <<>> THEN Walk(F, F.sb.root_inode_id, parents, Tail(comps), n)
         ELSE Walk(F, parents[Len(parents)], SubSeq(parents, 1, Len(parents) - 1),
                   Tail(comps), n)
    ELSE IF cur \notin DOMAIN F.inodes THEN [ok |-> FALSE, id |-> 0, n |-> n]
    ELSE IF F.inodes[cur].file_type # 1 THEN [ok |-> FALSE, id |-> 0, n |-> n]
    ELSE LET hits == {e \in DirEntries(F, cur) : e[2] = Head(comps)}
             next == (CHOOSE e \in hits : TRUE)[3]
         IN IF hits = {} THEN [ok |-> FALSE, id |-> 0, n |-> n]
            ELSE IF next \notin DOMAIN F.inodes THEN [ok |-> FALSE, id |-> 0, n |-> n]
            ELSE IF F.inodes[next].file_type # 2
            THEN Walk(F, next, Append(parents, cur), Tail(comps), n)
            ELSE IF StartsWithSlash(FileBytes(F, next))
            THEN Walk(F, F.sb.root_inode_id, <<>>,
                      SplitPath(FileBytes(F, next)) \o Tail(comps), n + 1)
            ELSE Walk(F, cur, parents, SplitPath(FileBytes(F, next)) \o Tail(comps), n + 1)

\* Walk of a path typed at the prompt
WalkPath(F, p) ==
    IF StartsWithSlash(p) THEN Walk(F, F.sb.root_inode_id, <<>>, SplitPath(p), 0)
    ELSE Walk(F, F.cwd_inode, F.cwd_stack, SplitPath(p), 0)

\* the paths resolution is tried with: the target directory, every link of
\* the chain, the link to itself, a link by its name alone, and paths that go
\* on after a link
ProbePaths ==
    {LinkPath(k) : k \in 0..ChainMax}
        \cup {PathZ, LinkName(ChainMax), PathZ \o PathT,
              LinkPath(1) \o <<SLASH>> \o DotDotName \o LinkPath(MAX_SYMLINK_DEPTH),
              LinkPath(MAX_SYMLINK_DEPTH) \o <<SLASH>> \o DotName}

\* C11: a path resolves iff the walk along it ends at an inode and expands at
\* most 16 symlinks, and then at that inode; a path that needs more, a cycle
\* included, fails with SymlinkLoop; a command whose path does not resolve
\* leaves the filesystem as it was.
C11_SymlinkDepth ==
    fs_open =>
        \A p \in ProbePaths :
            LET r == resolve_path(CurF, p)
                w == WalkPath(CurF, p)
            IN /\ r.ok <=> (w.ok /\ w.n <= MAX_SYMLINK_DEPTH)
               /\ r.ok => r.id = w.id
               /\ w.n > MAX_SYMLINK_DEPTH => r.err = "SymlinkLoop"
               /\ ~r.ok => cd_cmd(CurF, p) = Reply("PATH NOT FOUND", CurF)

\* the chain is complete: the link of depth 16 resolves to /T, the link of
\* depth 17 and the link to itself are there and do not resolve
C11_Witness ==
    /\ fs_open
    /\ Present(LinkPath(ChainMax))
    /\ Present(PathZ)
    /\ resolve_path(CurF, LinkPath(MAX_SYMLINK_DEPTH)).ok
    /\ resolve_path(CurF, LinkPath(MAX_SYMLINK_DEPTH)).id = resolve_path(CurF, PathT).id
    /\ WalkPath(CurF, LinkPath(MAX_SYMLINK_DEPTH)).n = MAX_SYMLINK_DEPTH
    /\ resolve_path(CurF, LinkPath(ChainMax)).err = "SymlinkLoop"
    /\ WalkPath(CurF, LinkPath(ChainMax)).ok
    /\ resolve_path(CurF, PathZ).err = "SymlinkLoop"

\* inode ino is free, as free_inode leaves it
Freed(ino) ==
    /\ ino.link_count = 0
    /\ ino.file_type = 0
    /\ ino.file_size = 0
    /\ Pointers(ino) = {}

\* C12: when p names a directory d, rmdir p prints NOT EMPTY and changes
\* nothing if d has a live entry; otherwise it prints OK, d's inode is free,
\* the blocks d had are free in the bitmap and no directory entry refers to d.
C12_RmdirOnlyEmpty ==
    fs_open =>
        \A p \in {PathA, NameB, PathL} :
            LET res == resolve_path(CurF, p)
                r == rmdir_cmd(CurF, p)
            IN (res.ok /\ res.id \in LiveIds /\ inodes[res.id].file_type = 1) =>
                  IF DirEntries(CurF, res.id) # {}
                  THEN r = Reply("NOT EMPTY", CurF)
                  ELSE /\ r.out = "OK"
                       /\ Freed(r.fs.inodes[res.id])
                       /\ \A b \in Pointers(inodes[res.id]) :
                             (b - sb.block_start) \notin r.fs.data_bitmap
                       /\ \A e \in Entries(r.fs) : e[3] # res.id

\* names of 12 and of 13 bytes
Name12 == [i \in 1..DIR_NAME_LEN |-> 110]
Name13 == [i \in 1..(DIR_NAME_LEN + 1) |-> 110]

\* the paths mkdir is tried with: a name of the session, a path below it, a
\* path through the link, the longest name and one byte more, ".", "/"
MkdirProbes ==
    {PathA, NameB, PathA \o <<SLASH>> \o NameB \o <<SLASH>> \o NameC,
     PathL \o <<SLASH>> \o NameC, Name12, Name13, PathA \o <<SLASH>> \o Name13,
     DotName, <<SLASH>>}

\* the filesystem G has the live inodes, the bitmap and the directory entries
\* of the open filesystem
SameFiles(G) ==
    /\ G.data_bitmap = data_bitmap
    /\ DOMAIN G.inodes = DOMAIN inodes
    /\ \A i \in DOMAIN inodes :
          /\ G.inodes[i].link_count = inodes[i].link_count
          /\ i \in LiveIds => G.inodes[i] = inodes[i]
    /\ Entries(G) = Entries(CurF)

Contents(G) ==
    {<<i, FileBytes(G, i)>> :
        i \in {j \in DOMAIN G.inodes :
                  G.inodes[j].link_count >= 1 /\ G.inodes[j].file_type # 1}}

\* C14: when the last component of p names a symlink, rmslink p prints OK,
\* removes that entry and no other, frees the link's inode and blocks, and
\* leaves every other inode, every other block's bit and every other file's
\* bytes as they were, the link's target included; when it names a regular
\* file or a directory, rmslink prints FILE NOT FOUND and changes nothing.
C14_RmslinkOnlyLink ==
    fs_open =>
        /\ \A p \in {PathL, PathF, PathG} :
              LET pn == resolve_parent_and_name(CurF, p)
                  hit == {e \in DirEntries(CurF, pn.id) : e[2] = pn.name}
                  id == (CHOOSE e \in hit : TRUE)[3]
                  r == rmslink_cmd(CurF, p)
              IN (pn.ok /\ hit # {}) =>
                    IF inodes[id].file_type = 2
                    THEN /\ r.out = "OK"
                         /\ Freed(r.fs.inodes[id])
                         /\ r.fs.data_bitmap
                               = data_bitmap \ {b - sb.block_start : b \in Pointers(inodes[id])}
                         /\ Entries(r.fs) = Entries(CurF) \ hit
                         /\ \A j \in DOMAIN inodes \ {id} : r.fs.inodes[j] = inodes[j]
                         /\ Contents(r.fs) = Contents(CurF) \ {<<id, FileBytes(CurF, id)>>}
                    ELSE r = Reply("FILE NOT FOUND", CurF)
        /\ LET m == mkdir_cmd(CurF, PathD)
           IN m.out = "OK" => rmslink_cmd(m.fs, PathD) = Reply("FILE NOT FOUND", m.fs)

\* rmslink has removed /l, a link to /f; /f is there, and rmslink refuses it
C14_Witness ==
    /\ fs_open
    /\ last = [cmd |-> "rmslink", out |-> "OK"]
    /\ ~Present(PathL)
    /\ Present(PathF)
    /\ resolve_path(CurF, PathF).ok
    /\ FileBytes(CurF, resolve_path(CurF, PathF).id) # <<>>
    /\ rmslink_cmd(CurF, PathF).out = "FILE NOT FOUND"
    /\ mkdir_cmd(CurF, PathD).out = "OK"

\* the live inodes of filesystem G
LiveIn(G) == {i \in DOMAIN G.inodes : G.inodes[i].link_count >= 1}

LinksTo(G, id) ==
    {s \in LiveIn(G) :
        /\ G.inodes[s].file_type = 2
        /\ WalkPath(G, FileBytes(G, s)).ok
        /\ WalkPath(G, FileBytes(G, s)).id = id}

\* the soft-link count info prints for path p in G
SoftLinks(G, p) == info_cmd(G, p).line.soft_links

\* C16 as stated: info prints the number of live symlinks whose target
\* resolves to the inode, and a successful slink to a file raises the count
\* printed for that file by exactly one.
C16_SoftLinkCount ==
    fs_open =>
        \A p \in {PathF, PathG, PathL} :
            LET r == resolve_path(CurF, p)
            IN r.ok =>
                  /\ SoftLinks(CurF, p) = Cardinality(LinksTo(CurF, r.id))
                  /\ \A l \in {PathL, PathM} :
                        LET s == slink_cmd(CurF, p, l)
                        IN s.out = "OK" => SoftLinks(s.fs, p) = SoftLinks(CurF, p) + 1

\* the live symlinks of G whose stored bytes lead to no inode
Dangling(G) ==
    {s \in LiveIn(G) : G.inodes[s].file_type = 2 /\ ~WalkPath(G, FileBytes(G, s)).ok}

\* C16, amended: info prints the number of live symlinks whose target
\* resolves to the inode.  A successful slink to a file raises the count
\* printed for that file by at least one, and by exactly one when no live
\* symlink was dangling (a link that dangled through the new name resolves
\* to the file too); the rmslink of the new link brings the count back.
C16_SoftLinkCountAmended ==
    fs_open =>
        \A p \in {PathF, PathG, PathL} :
            LET r == resolve_path(CurF, p)
            IN r.ok =>
                  /\ SoftLinks(CurF, p) = Cardinality(LinksTo(CurF, r.id))
                  /\ \A l \in {PathL, PathM} :
                        LET s == slink_cmd(CurF, p, l)
                            u == rmslink_cmd(s.fs, l)
                        IN s.out = "OK" =>
                              /\ SoftLinks(s.fs, p) >= SoftLinks(CurF, p) + 1
                              /\ Dangling(CurF) = {}
                                    => SoftLinks(s.fs, p) = SoftLinks(CurF, p) + 1
                              /\ u.out = "OK"
                              /\ SoftLinks(u.fs, p) = SoftLinks(CurF, p)

\* info /f has printed one soft link: /l, made by slink /f /l
C16_Witness ==
    /\ fs_open
    /\ last.cmd = "info"
    /\ last.out # "FILE NOT FOUND"
    /\ last.line.name = <<102>>
    /\ last.line.soft_links = 1
    /\ Present(PathF)
    /\ Present(PathL)
    /\ ~Present(PathM)
    /\ slink_cmd(CurF, PathF, PathM).out = "OK"

\* C17: while a filesystem is open, statfs reports as used the number of
\* data blocks whose bit is set in its in-memory bitmap.
C17_StatfsLiveBitmap ==
    fs_open =>
        /\ statfs_cmd(Ctx).out = "STATS"
        /\ statfs_cmd(Ctx).line.blocks_used = Cardinality(data_bitmap)
        /\ last.cmd = "statfs" => last.line.blocks_used = Cardinality(data_bitmap)

\* C18: free_inode(id) on a live inode clears the bit of every data block
\* the inode points to, directly or through its indirect pointers, and leaves
\* the inode stored as free with its pointers zeroed, whether or not the
\* release of one of its blocks fails.
C18_FreeInodeBestEffort ==
    fs_open =>
        \A id \in LiveIds \ {sb.root_inode_id} :
            LET r == free_inode(CurF, id)
            IN /\ Freed(r.fs.inodes[id])
               /\ \A b \in Pointers(inodes[id]) :
                     InDataRange(sb, b) => (b - sb.block_start) \notin r.fs.data_bitmap

\* the paths cd is tried with: directories, files, a missing name, relative
\* names
CdProbes ==
    {PathD, PathF, PathG, PathDF, <<SLASH>>, DotDotName, DotName, <<102>>, <<68>>,
     PathD \o PathG, PathDSlash \o DotDotName}

\* C19: cd prints OK exactly when its path resolves to a directory, and then
\* the working inode and the parent stack are the resolver's and nothing but
\* the three cwd fields changes; otherwise it prints PATH NOT FOUND and
\* nothing changes.  Without an argument cd does what cd / does, and that
\* succeeds; with two arguments it is refused.
C19_CdOnlyDirectory ==
    fs_open =>
        /\ \A p \in CdProbes :
              LET rp == resolve_path_with_stack(CurF, p)
                  c == cd_argv(CurF, <<p>>)
              IN /\ (c.out = "OK") <=> (rp.ok /\ inodes[rp.id].file_type = 1)
                 /\ c.out = "OK" =>
                       /\ c.fs.cwd_inode = rp.id
                       /\ c.fs.cwd_stack = rp.parents
                       /\ [c.fs EXCEPT !.cwd_inode = cwd_inode, !.cwd_stack = cwd_stack,
                                       !.cwd_path = cwd_path] = CurF
                 /\ c.out # "OK" => c = Reply("PATH NOT FOUND", CurF)
        /\ cd_argv(CurF, <<>>) = cd_argv(CurF, <<(<<SLASH>>)>>)
        /\ cd_argv(CurF, <<>>).out = "OK"
        /\ cd_argv(CurF, <<>>).fs.cwd_inode = sb.root_inode_id
        /\ cd_argv(CurF, <<PathD, PathD>>) = Reply("PATH NOT FOUND", CurF)

\* cd /D has succeeded; from /D, cd /f (a file) and cd f (no such name) are
\* refused and cd without argument leads back to /
C19_Witness ==
    /\ fs_open
    /\ last = [cmd |-> "cd", out |-> "OK"]
    /\ cwd_path = PathD
    /\ cwd_inode # sb.root_inode_id
    /\ cwd_stack # <<>>
    /\ resolve_path(CurF, PathF).ok
    /\ inodes[resolve_path(CurF, PathF).id].file_type = 0
    /\ cd_argv(CurF, <<PathF>>).out = "PATH NOT FOUND"
    /\ cd_argv(CurF, <<(<<102>>)>>).out = "PATH NOT FOUND"
    /\ cd_argv(CurF, <<>>).fs.cwd_path = <<SLASH>>

\* the failure strings the shell's command table gives each command
FailureStrings(cmd) ==
    IF cmd \in {"cd", "statfs"} THEN {"PATH NOT FOUND"}
    ELSE IF cmd \in {"rm", "rmslink", "info"} THEN {"FILE NOT FOUND"}
    ELSE IF cmd = "rmdir" THEN {"FILE NOT FOUND", "NOT EMPTY"}
    ELSE IF cmd = "mkdir" THEN {"PATH NOT FOUND", "EXIST", "NAME TOO LONG"}
    ELSE IF cmd = "incp" THEN {"FILE NOT FOUND", "PATH NOT FOUND", "NAME TOO LONG"}
    ELSE IF cmd = "mv" THEN {"FILE NOT FOUND", "PATH NOT FOUND"}
    ELSE IF cmd = "slink" THEN {"EXIST", "PATH NOT FOUND", "CANNOT CREATE FILE"}
    ELSE {""}

\* C20: while the program runs on an image without the magic and no
\* filesystem is open, a command other than format prints one of its failure
\* strings, leaves the image as it is and opens nothing; a format that prints
\* OK leaves a filesystem open on the image, with the root as working
\* directory.
C20_UnformattedStart ==
    [][(running /\ ~fs_open /\ img_sb.magic # FS_MAGIC) =>
          IF last'.cmd = "format"
          THEN last'.out = "OK" =>
                  /\ fs_open'
                  /\ img_sb'.magic = FS_MAGIC
                  /\ sb' = img_sb'
                  /\ cwd_inode' = sb'.root_inode_id
                  /\ cwd_stack' = <<>>
                  /\ cwd_path' = <<SLASH>>
          ELSE /\ ~fs_open'
               /\ UNCHANGED <<img_sb, img_bitmap, inodes, blocks>>
               /\ last'.out \in FailureStrings(last'.cmd)]_vars

\* C21: the superblock compute_layout returns has bitmap_start = 1,
\* inode_start = 1 + bitmap_count, block_start = inode_start plus the blocks
\* of the inode table (inode_count inodes of 48 bytes, rounded up), its data
\* area ends within the whole blocks of the image, and its bitmap has a bit
\* for every data block.
C21_LayoutInvariants ==
    last.cmd = "compute_layout" =>
        /\ img_sb.magic = FS_MAGIC
        /\ img_sb.bitmap_start = 1
        /\ img_sb.inode_start = 1 + img_sb.bitmap_count
        /\ img_sb.block_start
              = img_sb.inode_start
                  + (img_sb.inode_count * INODE_SIZE + BLOCK_SIZE - 1) \div BLOCK_SIZE
        /\ img_sb.block_start + img_sb.block_count <= img_sb.fs_size \div BLOCK_SIZE
        /\ img_sb.bitmap_count * BLOCK_SIZE * 8 >= img_sb.block_count

\* C21, amended: the same for every image of at least one block; a smaller
\* image gets the empty layout, whose block_start = 1 lies past its end.
C21_LayoutInvariantsAmended ==
    last.cmd = "compute_layout" =>
        /\ img_sb.magic = FS_MAGIC
        /\ img_sb.bitmap_start = 1
        /\ img_sb.inode_start = 1 + img_sb.bitmap_count
        /\ img_sb.block_start
              = img_sb.inode_start
                  + (img_sb.inode_count * INODE_SIZE + BLOCK_SIZE - 1) \div BLOCK_SIZE
        /\ img_sb.fs_size >= BLOCK_SIZE
              => img_sb.block_start + img_sb.block_count <= img_sb.fs_size \div BLOCK_SIZE
        /\ img_sb.fs_size < BLOCK_SIZE
              => img_sb.block_start = 1 /\ img_sb.block_count = 0 /\ img_sb.inode_count = 0
        /\ img_sb.bitmap_count * BLOCK_SIZE * 8 >= img_sb.block_count

\* a layout whose data blocks need more than one bitmap block
C21_Witness ==
    /\ last.cmd = "compute_layout"
    /\ img_sb.bitmap_count >= 2
    /\ img_sb.block_count > BLOCK_SIZE * 8
    /\ img_sb.inode_count >= 1
    /\ img_sb.fs_size % BLOCK_SIZE # 0

\* C22: while a filesystem is open, the file_size of every live directory
\* inode is a multiple of the 16-byte entry size, whatever commands ran.
C22_DirSizeAligned ==
    fs_open =>
        \A i \in LiveIds :
            inodes[i].file_type = 1 => inodes[i].file_size % DIR_ENTRY_SIZE = 0

\* a directory that was grown to two slots and then had an entry removed: it
\* keeps both slots, one of them a tombstone
C22_Witness ==
    /\ fs_open
    /\ last.cmd \in {"rmdir", "mv", "rmslink"}
    /\ last.out = "OK"
    /\ \E i \in LiveIds :
          /\ inodes[i].file_type = 1
          /\ inodes[i].file_size >= 2 * DIR_ENTRY_SIZE
          /\ \E k \in 0..(dir_entry_count(inodes[i]) - 1) :
                LET r == read_file_range(CurF, inodes[i], k * DIR_ENTRY_SIZE, DIR_ENTRY_SIZE)
                IN r.ok /\ is_unused(deserialize(r.data))

\* C23: while a filesystem is open, every non-tombstone entry of every live
\* directory names an inode that is in range and live (link_count >= 1).
C23_EntriesLive ==
    fs_open =>
        \A e \in Entries(CurF) :
            InodeInRange(CurF, e[3]) /\ inodes[e[3]].link_count >= 1

\* C24: while a filesystem is open, every live inode other than the root is
\* named by exactly one non-tombstone entry of a live directory.
C24_OneName ==
    fs_open =>
        \A i \in LiveIds \ {0} :
            Cardinality({e \in Entries(CurF) : e[3] = i}) = 1

\* the inodes that the entries of live directories lead to from the set S
RECURSIVE Reach(_)
Reach(S) ==
    LET N == S \cup {e[3] : e \in {x \in Entries(CurF) : x[1] \in S}}
    IN IF N = S THEN S ELSE Reach(N)

\* C25: while a formatted filesystem is open, every live inode is reached from
\* the root directory (inode 0) through directory entries, and no directory is
\* reached from its own entries (it is not its own ancestor).
C25_Tree ==
    (fs_open /\ sb.inode_count > 0) =>
        /\ LiveIds \subseteq Reach({0})
        /\ \A d \in LiveIds :
              inodes[d].file_type = 1 =>
                  d \notin Reach({e[3] : e \in DirEntries(CurF, d)})

\* the pointer slots in use of the live inodes, as <<inode id, slot, block>>;
\* slots 1..NDIRECT are the direct pointers, then single- and double-indirect
Slots ==
    {t \in UNION {{<<i, k, inodes[i].single_directs[k]>> : k \in 1..NDIRECT}
                     \cup {<<i, NDIRECT + 1, inodes[i].single_indirect>>,
                           <<i, NDIRECT + 2, inodes[i].double_indirect>>} :
                  i \in LiveIds} : t[3] # 0}

\* C26: in a run of the shell that formatted the image, no data block is held
\* by two pointer slots, of one live inode or of two; the copy cp makes shares
\* no block with its source.
C26_NoSharedBlock ==
    fs_open => \A t, u \in Slots : t[3] = u[3] => t = u

\* cp has just copied a file with data beside its source: both own blocks
C26_Witness ==
    /\ fs_open
    /\ last = [cmd |-> "cp", out |-> "OK"]
    /\ \E t, u \in Slots :
          /\ t[1] # u[1]
          /\ inodes[t[1]].file_type = 0 /\ inodes[u[1]].file_type = 0
          /\ FileBytes(CurF, t[1]) = FileBytes(CurF, u[1])
          /\ inodes[t[1]].file_size > BLOCK_SIZE

\* C27: whenever s names an object and d names a regular file with another
\* inode, mv s d prints OK, d's name then refers to s's inode, s's name is
\* gone from its parent, and the replaced inode is free with its blocks.
C27_MvReplaces ==
    fs_open =>
        \A s \in {PathF, PathG, PathDF}, d \in {PathF, PathG, PathDF} :
            LET sr == resolve_path(CurF, s)
                dr == resolve_path(CurF, d)
                spn == resolve_parent_and_name(CurF, s)
                dpn == resolve_parent_and_name(CurF, d)
                r == mv_cmd(CurF, s, d)
            IN (sr.ok /\ dr.ok /\ sr.id # dr.id /\ inodes[dr.id].file_type = 0) =>
                  /\ r.out = "OK"
                  /\ <<dpn.id, dpn.name, sr.id>> \in Entries(r.fs)
                  /\ ~\E e \in Entries(r.fs) : e[1] = spn.id /\ e[2] = spn.name
                  /\ r.fs.inodes[dr.id].link_count = 0
                  /\ \A b \in Pointers(inodes[dr.id]) :
                        ~bitmap_is_set(r.fs.data_bitmap, b - sb.block_start)

\* C28: a step that dispatches a command other than cd and other than a
\* successful format, with a filesystem open before and after, leaves the
\* cwd inode and the parent stack as they were.
C28_CwdKept ==
    [][(fs_open /\ fs_open' /\ last'.cmd # "cd"
            /\ ~(last'.cmd = "format" /\ last'.out = "OK"))
          => (cwd_inode' = cwd_inode /\ cwd_stack' = cwd_stack)]_vars

\* C29: while a filesystem is open, alloc_block returns block_start + i for
\* the lowest bit i below block_count that is clear in the in-memory bitmap,
\* sets that bit and the dirty flag and changes nothing else; when all
\* block_count bits are set, and only then, it returns none and changes
\* nothing.
C29_AllocLowestClear ==
    fs_open =>
        LET r == alloc_block(CurF)
            low == CHOOSE i \in FreeBits : \A j \in FreeBits : i <= j
        IN IF FreeBits # {}
           THEN /\ r.some
                /\ r.b = sb.block_start + low
                /\ r.fs = [CurF EXCEPT !.data_bitmap = data_bitmap \cup {low},
                                       !.bitmap_dirty = TRUE]
           ELSE /\ ~r.some
                /\ r.fs = CurF

\* the lowest clear bit lies in the second bitmap byte, below set bits
C29_Witness ==
    /\ fs_open
    /\ sb.block_count > 8
    /\ \A i \in 0..7 : bitmap_is_set(data_bitmap, i)
    /\ \E i \in FreeBits, j \in data_bitmap : i < j
    /\ alloc_block(CurF).some

\* the ids alloc_inode scans whose inode is free on the image
FreeIds == {i \in 1..(sb.inode_count - 1) : inodes[i].link_count = 0}

\* C30: while a filesystem is open, alloc_inode returns the lowest id in
\* 1..inode_count-1 whose link_count on the image is 0, and none when there is
\* no such id; the id it returns is never 0 and never that of a live inode.
\* (alloc_inode only reads: it has no image to return.)
C30_AllocInodeLowestFree ==
    fs_open =>
        LET r == alloc_inode(CurF)
        IN /\ r.some <=> FreeIds # {}
           /\ r.some =>
                 /\ r.id \in FreeIds
                 /\ \A j \in FreeIds : r.id <= j
                 /\ r.id # 0
                 /\ r.id \notin LiveIds

\* a removal has left inode 1 free below the live inode 2: alloc_inode finds 1
C30_Witness ==
    /\ fs_open
    /\ 1 \in FreeIds
    /\ 2 \in LiveIds
    /\ alloc_inode(CurF) = [some |-> TRUE, id |-> 1]

WriteOffsets == {0, 1, BLOCK_SIZE - 1, BLOCK_SIZE, 2 * BLOCK_SIZE}
WriteData == {HostOne.data, HostMid.data, HostFull.data}
RegularFiles == {i \in LiveIds : inodes[i].file_type = 0}

\* C32: in the writes write_file_range issues, a data block that had to be
\* allocated is written only after its bitmap bit was set and an inode with
\* the pointer to it was persisted, and an inode with a new file_size is
\* persisted only after every data block write of the call.  (The writes, in
\* their order, are those that produce the result of write_file_range.)
C32_WriteOrder ==
    fs_open =>
        \A i \in RegularFiles, off \in WriteOffsets, d \in WriteData :
            LET w == WriteEvents(CurF, inodes[i], off, d)
                r == write_file_range(CurF, inodes[i], off, d)
                ev == w.ev
            IN /\ w.ok = r.ok
               /\ Replay(CurF, ev) = r.fs
               /\ \A k \in 1..Len(ev) :
                     (ev[k].op = "write_block" /\ ev[k].b \notin Pointers(inodes[i])) =>
                        \E m \in 1..(k - 1), n \in 1..(k - 1) :
                           /\ m < n
                           /\ ev[m].op = "alloc_block" /\ ev[m].b = ev[k].b
                           /\ ev[n].op = "write_inode"
                           /\ ev[k].b \in Pointers(ev[n].inode)
               /\ \A n \in 1..Len(ev) :
                     (ev[n].op = "write_inode"
                         /\ ev[n].inode.file_size # inodes[i].file_size) =>
                        \A k \in 1..Len(ev) : ev[k].op = "write_block" => k < n

\* a write that allocates two blocks and grows the file: two allocations,
\* the data writes after them, the new size last
C32_Witness ==
    /\ fs_open
    /\ \E i \in RegularFiles :
          LET ev == WriteEvents(CurF, inodes[i], BLOCK_SIZE, HostMid.data).ev
          IN /\ write_file_range(CurF, inodes[i], BLOCK_SIZE, HostMid.data).ok
             /\ Cardinality({k \in 1..Len(ev) : ev[k].op = "alloc_block"}) = 2
             /\ ev[Len(ev)].op = "write_inode"
             /\ ev[Len(ev)].inode.file_size = 2 * BLOCK_SIZE + 1

\* the number of data blocks the call wrote before it returned
BlocksWritten(ev) == Cardinality({k \in 1..Len(ev) : ev[k].op = "write_block"})

\* C33: when write_file_range fails after it has written data blocks, the
\* inode on the image points to every block the call allocated and its
\* file_size covers the bytes the call has written.
C33_PartialWriteKept ==
    fs_open =>
        \A i \in RegularFiles, off \in WriteOffsets,
           d \in WriteData \cup {HostBig.data} :
            LET r == write_file_range(CurF, inodes[i], off, d)
                n == BlocksWritten(WriteEvents(CurF, inodes[i], off, d).ev)
                written_end == Min(off + Len(d), ((off \div BLOCK_SIZE) + n) * BLOCK_SIZE)
            IN (~r.ok /\ n >= 1) =>
                  /\ \A bit \in r.fs.data_bitmap \ data_bitmap :
                        (sb.block_start + bit) \in Pointers(r.fs.inodes[i])
                  /\ r.fs.inodes[i].file_size >= written_end

\* byte pos (from 0) of the file in inode ino of F
ByteAt(F, ino, pos) == read_file_range(F, ino, pos, 1).data[1]

\* C34: a successful write_file_range(inode, offset, data) on a regular file
\* leaves every byte below the old file_size and outside
\* [offset, offset + len) as it was, stores data in that range, and makes
\* file_size the larger of the old file_size and offset + len, in the inode
\* it returns and on the image.
C34_WriteFrame ==
    fs_open =>
        \A i \in RegularFiles, off \in WriteOffsets, d \in WriteData :
            LET r == write_file_range(CurF, inodes[i], off, d)
                old_size == inodes[i].file_size
            IN r.ok =>
                  /\ r.inode.file_size = Max(old_size, off + Len(d))
                  /\ r.fs.inodes[i] = r.inode
                  /\ \A pos \in 0..(old_size - 1) :
                        (pos < off \/ pos >= off + Len(d)) =>
                           ByteAt(r.fs, r.inode, pos) = ByteAt(CurF, inodes[i], pos)
                  /\ read_file_range(r.fs, r.inode, off, Len(d)).data = d

\* one byte written inside the first block of a file of more than a block:
\* the size stays and the byte changes
C34_Witness ==
    /\ fs_open
    /\ \E i \in RegularFiles :
          LET r == write_file_range(CurF, inodes[i], 1, HostOne.data)
          IN /\ inodes[i].file_size = BLOCK_SIZE + 1
             /\ r.ok
             /\ r.inode.file_size = BLOCK_SIZE + 1
             /\ ByteAt(r.fs, r.inode, 1) # ByteAt(CurF, inodes[i], 1)
             /\ ByteAt(r.fs, r.inode, BLOCK_SIZE) = ByteAt(CurF, inodes[i], BLOCK_SIZE)

\* the live directories of the open filesystem
LiveDirs == {i \in LiveIds : inodes[i].file_type = 1}

\* the slots of directory d of F that can be read, as <<index, entry>>
SlotsOf(F, d) ==
    {<<k, deserialize(read_file_range(F, F.inodes[d], k * DIR_ENTRY_SIZE,
                                      DIR_ENTRY_SIZE).data)>> :
        k \in {j \in 0..(dir_entry_count(F.inodes[d]) - 1) :
                  read_file_range(F, F.inodes[d], j * DIR_ENTRY_SIZE, DIR_ENTRY_SIZE).ok}}

\* those that hold a live entry
LiveSlots(F, d) == {t \in SlotsOf(F, d) : ~is_unused(t[2])}

\* the names dir_add_entry is tried with: the names in the directory, the
\* empty name, a new name, the longest name and one byte more
AddProbes(d) ==
    {name_str(t[2]) : t \in LiveSlots(CurF, d)} \cup {<<>>, NameC, Name12, Name13}

\* C35: while a filesystem is open, no live directory holds two live entries
\* with one name; dir_add_entry fails and changes nothing for the empty name,
\* for a name of more than 12 bytes, and, with AlreadyExists, for the name of
\* a live entry.
C35_UniqueNames ==
    fs_open =>
        \A d \in LiveDirs :
            /\ \A t, u \in LiveSlots(CurF, d) :
                  name_str(t[2]) = name_str(u[2]) => t = u
            /\ \A n \in AddProbes(d) :
                  LET r == dir_add_entry(CurF, inodes[d], n, 1)
                  IN /\ (n = <<>> \/ Len(n) > DIR_NAME_LEN) => (~r.ok /\ r.fs = CurF)
                     /\ (\E t \in LiveSlots(CurF, d) : name_str(t[2]) = n) =>
                           (~r.ok /\ r.err = "AlreadyExists" /\ r.fs = CurF)

\* the indices of the tombstone slots of directory d
Tombstones(d) == {t[1] : t \in SlotsOf(CurF, d) \ LiveSlots(CurF, d)}

\* C36: when dir_add_entry succeeds on a live directory that has a tombstone,
\* the new entry is in the tombstone slot of lowest index and file_size is
\* as it was; when the directory has no tombstone, the new entry is in a new
\* slot at the old file_size, which grows by 16; every other slot is as it
\* was.
C36_AddReusesLowestSlot ==
    fs_open =>
        \A d \in LiveDirs, n \in {NameC, Name12} :
            LET r == dir_add_entry(CurF, inodes[d], n, 1)
                old_size == inodes[d].file_size
                old_count == dir_entry_count(inodes[d])
                free == Tombstones(d)
                slot == IF free # {} THEN CHOOSE k \in free : \A j \in free : k <= j
                        ELSE old_count
                entry == deserialize(serialize(from_name(n, 1)))
            IN r.ok =>
                  /\ r.fs.inodes[d].file_size =
                        IF free # {} THEN old_size ELSE old_size + DIR_ENTRY_SIZE
                  /\ r.inode = r.fs.inodes[d]
                  /\ SlotsOf(r.fs, d) =
                        {t \in SlotsOf(CurF, d) : t[1] # slot} \cup {<<slot, entry>>}

\* a directory of two slots whose first is a tombstone and whose second is
\* live: the new entry goes into the first
C36_Witness ==
    /\ fs_open
    /\ \E d \in LiveDirs :
          /\ Tombstones(d) = {0}
          /\ \E t \in LiveSlots(CurF, d) : t[1] = 1
          /\ dir_add_entry(CurF, inodes[d], NameC, 1).ok

\* C37: on a live directory, dir_remove_entry(dir, name) finds the live entry
\* with that name, makes its slot a tombstone (inode_id = 0xFFFFFFFF) and
\* changes nothing else: file_size, the other slots, every inode (that of the
\* removed entry too) and the bitmap are as they were; with no live entry of
\* that name it fails with NotFound and changes nothing.
C37_RemoveTombstonesOne ==
    fs_open =>
        \A d \in LiveDirs :
            \A n \in {name_str(t[2]) : t \in LiveSlots(CurF, d)} \cup {NameC, PathM} :
                LET r == dir_remove_entry(CurF, inodes[d], n)
                    hit == {t \in LiveSlots(CurF, d) : name_str(t[2]) = n}
                    gone == CHOOSE t \in hit : \A u \in hit : t[1] <= u[1]
                IN IF hit = {}
                   THEN ~r.ok /\ r.err = "NotFound" /\ r.fs = CurF
                   ELSE /\ r.ok
                        /\ SlotsOf(r.fs, d) =
                              (SlotsOf(CurF, d) \ {gone}) \cup
                                 {<<gone[1],
                                    [gone[2] EXCEPT !.inode_id = DIR_INODE_UNUSED]>>}
                        /\ r.fs.inodes = inodes
                        /\ r.fs.data_bitmap = data_bitmap
                        /\ \A b \in DOMAIN blocks :
                              b \notin Pointers(inodes[d]) => r.fs.blocks[b] = blocks[b]

\* a directory with two live entries: removing the second leaves the first
C37_Witness ==
    /\ fs_open
    /\ \E d \in LiveDirs :
          /\ Cardinality(LiveSlots(CurF, d)) = 2
          /\ \E t \in LiveSlots(CurF, d) :
                /\ t[1] = 1
                /\ inodes[t[2].inode_id].link_count >= 1
                /\ dir_remove_entry(CurF, inodes[d], name_str(t[2])).ok

\* ---------------------------------------------------------------------------
\* Symlink expansion in the resolver
\* ---------------------------------------------------------------------------

\* walk positions a lookup is tried from: the root, /D entered from the
\* root, and the current directory
WalkStarts ==
    {[id |-> sb.root_inode_id, parents |-> <<>>],
     [id |-> cwd_inode, parents |-> cwd_stack]}
        \cup (IF resolve_path(CurF, PathD).ok
              THEN {[id |-> resolve_path(CurF, PathD).id,
                     parents |-> <<sb.root_inode_id>>]}
              ELSE {})

\* the entries of directory d that name a symlink
LinkEntries(F, d) ==
    IF d \notin DOMAIN F.inodes THEN {}
    ELSE IF F.inodes[d].file_type # 1 THEN {}
    ELSE {e \in DirEntries(F, d) : e[3] \in DOMAIN F.inodes /\ F.inodes[e[3]].file_type = 2}

\* components left after the link, and the depths the walk is at
RestComps == {<<>>, <<DotDotName>>, <<DotName, DotDotName, Tail(PathT)>>}
WalkDepths == {0, MAX_SYMLINK_DEPTH - 1, MAX_SYMLINK_DEPTH}

\* C38: when the walk meets a symlink, the result is that of resolving the
\* components of its target followed by the components not yet resolved, one
\* expansion deeper: from the root with an empty parent stack when the target
\* is absolute, from the directory holding the link with the parent stack as
\* it is when the target is relative.
C38_SymlinkExpansion ==
    fs_open =>
        \A w \in WalkStarts : \A e \in LinkEntries(CurF, w.id) :
            \A rest \in RestComps : \A d \in WalkDepths :
                LET target == FileBytes(CurF, e[3])
                    abs == Len(target) > 0 /\ target[1] = SLASH
                IN resolve_components_with_stack(CurF, w.id, w.parents, <<e[2]>> \o rest, d)
                       = resolve_components_with_stack(
                             CurF,
                             IF abs THEN sb.root_inode_id ELSE w.id,
                             IF abs THEN <<>> ELSE w.parents,
                             SplitPath(target) \o rest, d + 1)

\* /D holds a link with a relative target and the root one with an absolute
\* target; the relative one followed by ".." ends at the root, the absolute
\* one at /T
C38_Witness ==
    /\ fs_open
    /\ Present(LinkPath(RootLinks + 2))
    /\ ~StartsWithSlash(LinkTarget(RootLinks + 2))
    /\ StartsWithSlash(LinkTarget(1))
    /\ resolve_path(CurF, LinkPath(RootLinks + 2) \o <<SLASH>> \o DotDotName).ok
    /\ resolve_path(CurF, LinkPath(RootLinks + 2) \o <<SLASH>> \o DotDotName).id
           = sb.root_inode_id
    /\ resolve_path(CurF, LinkPath(1)).ok
    /\ resolve_path(CurF, LinkPath(1)).id = resolve_path(CurF, PathT).id

\* ---------------------------------------------------------------------------
\* "." and ".." in the resolver
\* ---------------------------------------------------------------------------

\* directory paths the walk is tried along: absolute and relative, through a
\* link, with "." and ".." inside
DirPaths ==
    {<<SLASH>>, DotName, DotDotName, PathD, PathL, PathA, Tail(PathA), NameB,
     Tail(PathD), Tail(PathL),
     PathD \o <<SLASH>> \o DotName, PathL \o <<SLASH>> \o DotDotName,
     PathA \o <<SLASH>> \o NameB, PathA \o <<SLASH>> \o DotDotName \o PathA}

\* the entries of directory d that do not name a symlink and whose name is
\* one path component
PlainEntries(F, d) ==
    IF d \notin DOMAIN F.inodes THEN {}
    ELSE IF F.inodes[d].file_type # 1 THEN {}
    ELSE {e \in DirEntries(F, d) :
              /\ e[3] \in DOMAIN F.inodes /\ F.inodes[e[3]].file_type # 2
              /\ SplitPath(e[2]) = <<e[2]>> /\ e[2] \notin {DotName, DotDotName}}

\* C39: "." leaves the walk where it is; ".." goes back to the directory the
\* current one was entered from, the top of the parent stack, and to the root
\* when the stack is empty.  So for a directory path P that resolves and a
\* name n of an entry of P that is no symlink, P/n/.. resolves to what P
\* resolves to, P/. too, and /.. resolves to the root.
C39_DotAndDotDot ==
    fs_open =>
        /\ resolve_path(CurF, <<SLASH>> \o DotDotName).ok
        /\ resolve_path(CurF, <<SLASH>> \o DotDotName).id = sb.root_inode_id
        /\ \A P \in DirPaths :
               LET r == resolve_path_with_stack(CurF, P)
               IN r.ok =>
                      /\ resolve_path_with_stack(CurF, P \o <<SLASH>> \o DotName) = r
                      /\ resolve_path_with_stack(CurF, P \o <<SLASH>> \o DotDotName)
                             = IF r.parents = <<>>
                               THEN [r EXCEPT !.id = sb.root_inode_id]
                               ELSE [r EXCEPT !.id = r.parents[Len(r.parents)],
                                              !.parents = SubSeq(r.parents, 1,
                                                                 Len(r.parents) - 1)]
                      /\ \A e \in PlainEntries(CurF, r.id) :
                             resolve_path_with_stack(
                                 CurF, P \o <<SLASH>> \o e[2] \o <<SLASH>> \o DotDotName) = r

\* /D holds a file and /l is a link to /D: /l/f/.. and D/f/.. both end at /D,
\* whose parent is the root
C39_Witness ==
    /\ fs_open
    /\ cwd_inode = sb.root_inode_id
    /\ resolve_path(CurF, PathD).ok
    /\ resolve_path(CurF, PathL).ok
    /\ resolve_path(CurF, PathL).id = resolve_path(CurF, PathD).id
    /\ \E e \in PlainEntries(CurF, resolve_path(CurF, PathD).id) :
           /\ inodes[e[3]].file_type = 0
           /\ resolve_path(CurF, PathL \o <<SLASH>> \o e[2] \o <<SLASH>> \o DotDotName).id
                  = resolve_path(CurF, PathD).id
           /\ resolve_path_with_stack(
                  CurF, Tail(PathD) \o <<SLASH>> \o e[2] \o <<SLASH>> \o DotDotName)
                  = [ok |-> TRUE, err |-> "", id |-> resolve_path(CurF, PathD).id,
                     parents |-> <<sb.root_inode_id>>]

\* ---------------------------------------------------------------------------
\* format with a size it cannot parse
\* ---------------------------------------------------------------------------

\* size strings parse_size refuses: no digits, empty, an unknown unit
BadSizes == {BadSize, <<>>, Decimal(BLOCK_SIZE) \o BadSize}

\* what a refused format leaves of the image: superblock, inode table, data
FormatKeepsImage(C, r) ==
    /\ r.out = "CANNOT CREATE FILE"
    /\ r.ctx.img_sb = C.img_sb
    /\ r.ctx.fs.inodes = C.fs.inodes
    /\ r.ctx.fs.blocks = C.fs.blocks

\* C40: a format whose size string does not parse reports CANNOT CREATE FILE,
\* leaves superblock, inode table and data area of the image as they were,
\* and the filesystem that was open stays open, with the same state, for the
\* commands that follow.
C40_FailedFormatKeepsFs ==
    fs_open =>
        \A size_str \in BadSizes :
            ~parse_size(size_str).ok =>
                LET r == format_cmd(Ctx, size_str)
                IN /\ FormatKeepsImage(Ctx, r)
                   /\ r.ctx.fs_open
                   /\ mkdir_cmd(r.ctx.fs, PathA) = mkdir_cmd(CurF, PathA)
====
